---- MODULE Spec2Model ----
(***************************************************************************)
(* A model of omni.py: the execution-series computation                    *)
(* (compute_executed_series), the run summaries and grand totals           *)
(* (build_rows_and_grand_from_tests_map_with_metadata), the reconciliation *)
(* of the cumulative series against the metadata Executed total and the    *)
(* JSON payload written by save_json_output.                               *)
(*                                                                         *)
(* Spec is the pipeline of main (and of one plan of write_per_plan_jsons)  *)
(* with every function as one step; SpecSeries, SpecRows and SpecDays      *)
(* apply compute_executed_series and the summary builder to wider inputs;  *)
(* SpecFetch follows the two thread-pool phases task by task.              *)
(*                                                                         *)
(* Time is scaled: a local calendar day has DayLen seconds and a daylight  *)
(* saving shift is one second.  Python lists are 1-based sequences here;   *)
(* day indices (first_idx) keep the code's 0-based values, with -1 for     *)
(* "before the window" and None for "never executed".                      *)
(***************************************************************************)
EXTENDS Integers, Sequences, FiniteSets, TLC

VARIABLES
    pc,                 \* position of the pipeline
    scope,              \* "global": main; "plan": one plan of write_per_plan_jsons
    dry_run,            \* args.dry_run
    days,               \* args.days
    tz,                 \* LOCAL_TZ
    tests_map,          \* (run_id, test_id) -> timeline of <<ts, status>>
    executed_series,    \* daily_presence returned by compute_executed_series
    cumulative_series,  \* cumulative_per_day, reconciled in place
    rows,               \* summary rows
    grand,              \* grand totals
    current_last,       \* last cumulative value read by the reconciliation
    missing_from_meta,  \* the reconciliation deficit
    payload,            \* the JSON object written by save_json_output
    meta_store,         \* run_id -> what fetch_run_meta returned
    futures,            \* run_id -> state of the task submitted to the executor
    returned,           \* run_id -> value a finished task returned
    consumed,           \* run ids the as_completed loop has gone through
    \* table_testruns.build_testruns_table
    run_rows,           \* the rows given to build_testruns_table
    plan_name_map,      \* config.PLAN_NAME_MAP
    plan_info,          \* plan id -> what _get_testrail_plan_info returns
    table,              \* the groups the table shows, in order
    \* omni.main: the writes at the end
    main_pc,            \* position of main after the reconciliation
    args_dry_run,       \* args.dry_run
    plan_ids,           \* what _normalize_plan_ids returns
    todo_plans,         \* plans the loop of write_per_plan_jsons has not reached
    disk,               \* the files under the output directory
    produced_files,     \* the manifest main collects
    exit_code,          \* what main returned
    \* table_jira._fetch_count for one filter
    jira_pc,            \* "post", "page", "returned" or "raised"
    safe_jql,           \* whether sanitize_jql accepted the JQL
    max_pages,          \* cfg.max_pages
    posts,              \* primary POST requests sent
    pages,              \* pages the GET paging has counted
    total,              \* issues the GET paging has counted
    last_response,      \* the response to the latest request
    count,              \* what _fetch_count returned
    \* orchestrator.main
    orch_pc,            \* the stage main is about to run, or "returned"
    no_charts,          \* args.no_charts
    skip_jira,          \* args.skip_jira
    stages,             \* the stages run so far, in order
    failed_stages,      \* the stages that failed
    rc,                 \* what _run_omni returned
    rc_out,             \* what _run_output returned
    orch_rc,            \* what main returned
    \* omni._atomic_write_json and chart_generator._atomic_write_bytes
    atom_pc,            \* the step the writer is about to take, or "done"
    writer,             \* "json" or "bytes"
    data_size,          \* chunks of the data to write
    previous,           \* the content of the target when the writer was called
    target,             \* the content of the target path
    tmp,                \* the content of the temporary file
    unlink_failed,      \* the removal of the temporary file raised
    write_result,       \* "True", "False", "returned" or "raised"
    \* table_jira.fetch_counts
    counts_pc,          \* "start", "loop", "save" or "done"
    filters,            \* the (name, jql) pairs given to fetch_counts
    credentials,        \* whether base, user and token are all set
    no_cache,           \* the no_cache argument
    force,              \* the force argument
    clock,              \* time.time()
    disk_cache,         \* the cache file, as _load_cache reads it
    cache,              \* the cache dictionary of this call
    norm,               \* the normalised filters not yet handled
    counts_by_name,     \* results: name -> count or None
    fetched             \* the _fetch_count calls made: <<jql, value>>

omniVars == <<pc, scope, dry_run, days, tz, tests_map, executed_series,
              cumulative_series, rows, grand, current_last, missing_from_meta,
              payload, meta_store, futures, returned, consumed>>

tableVars == <<run_rows, plan_name_map, plan_info, table>>

mainVars == <<main_pc, args_dry_run, plan_ids, todo_plans, disk,
              produced_files, exit_code>>

jiraVars == <<jira_pc, safe_jql, max_pages, posts, pages, total,
              last_response, count>>

orchVars == <<orch_pc, no_charts, skip_jira, stages, failed_stages, rc,
              rc_out, orch_rc>>

atomVars == <<atom_pc, writer, data_size, previous, target, tmp, unlink_failed,
              write_result>>

countsVars == <<counts_pc, filters, credentials, no_cache, force, clock,
                disk_cache, cache, norm, counts_by_name, fetched>>

vars == <<omniVars, tableVars, mainVars, jiraVars, orchVars, atomVars,
          countsVars>>

(* The variables a module's steps leave alone.                             *)
notOmni == <<tableVars, mainVars, jiraVars, orchVars, atomVars, countsVars>>
notTable == <<omniVars, mainVars, jiraVars, orchVars, atomVars, countsVars>>
notMain == <<omniVars, tableVars, jiraVars, orchVars, atomVars, countsVars>>
notJira == <<omniVars, tableVars, mainVars, orchVars, atomVars, countsVars>>
notOrch == <<omniVars, tableVars, mainVars, jiraVars, atomVars, countsVars>>
notAtom == <<omniVars, tableVars, mainVars, jiraVars, orchVars, countsVars>>
notCounts == <<omniVars, tableVars, mainVars, jiraVars, orchVars, atomVars>>

poolVars == <<futures, returned, consumed>>

(* Optional[int]: None is the empty tuple, a value v is <<v>>.              *)
None == <<>>
Some(v) == <<v>>

-----------------------------------------------------------------------------
(* Bounds of the model                                                     *)

MaxDays == 2        \* largest --days value explored
MaxObs == 2         \* results in a timeline store given to the series alone
MaxResults == 1     \* results fetched by one run of the pipeline
DayLen == 2         \* seconds in a local calendar day (86400, scaled)

(* Program constants and configuration                                     *)

EXECUTED_FOR_COUNTS == {1, 5}
Statuses == {1, 3, 5}           \* passed, untested, failed
RUN_IDS == {1, 2}               \* config.RUN_IDS
TestIds == {1}
PlanRuns == {2}                 \* the run ids fetch_plan_runs returns
Keys == RUN_IDS \X TestIds
PlanKeys == PlanRuns \X TestIds

Max(a, b) == IF a >= b THEN a ELSE b

-----------------------------------------------------------------------------
(* Local time zone: a zone is the wall-clock instant of its one transition  *)
(* and the UTC offsets before and after it.  _get_local_tz returns either  *)
(* a fixed offset or a ZoneInfo; a ZoneInfo resolves a wall time (fold=0)  *)
(* with the offset in force before the transition whenever the wall time   *)
(* is earlier than the transition instant shifted by the larger offset.    *)

Today == MaxDays                            \* local day number of "now"
Midnight == Today * DayLen                  \* wall clock 00:00 of today

FixedZone == [wall |-> 0, before |-> 0, after |-> 0]
FallBackZone == [wall |-> Midnight, before |-> 0, after |-> -1]
TimeZones == {FixedZone, FallBackZone}

UtcOffset(w, z) == IF w < z.wall THEN z.before ELSE z.after

ToUtc(w, z) == w - UtcOffset(w, z)

(* ordered_days[i] is the local day number; day_start_utc / day_end_utc    *)
(* are the UTC seconds of its 00:00:00 and 23:59:59.999999 (truncated).    *)
(* range(days) is empty for days <= 0.                                     *)
ordered_days(n) == [i \in 1..Max(0, n) |-> Today - (n - i)]

day_start_utc(n, z) ==
    [i \in 1..Len(ordered_days(n)) |-> ToUtc(ordered_days(n)[i] * DayLen, z)]

day_end_utc(n, z) ==
    [i \in 1..Len(ordered_days(n)) |->
        ToUtc(ordered_days(n)[i] * DayLen + (DayLen - 1), z)]

MaxTs == (Today + 1) * DayLen
RawTimestamps == 0..MaxTs       \* created_on values a result may carry

-----------------------------------------------------------------------------
(* Timeline store.  fetch_all_results appends every accepted result to its  *)
(* key's list and finally sorts each list by timestamp (list.sort is       *)
(* stable).                                                                *)

Ts(obs) == obs[1]
St(obs) == obs[2]

(* Variant of InsertByTs: a result goes before the results of the same     *)
(* second.                                                                 *)
RECURSIVE InsertByTsBeforeEqual(_, _)
InsertByTsBeforeEqual(sorted, obs) ==
    IF sorted = <<>> THEN <<obs>>
    ELSE IF Ts(sorted[Len(sorted)]) < Ts(obs) THEN Append(sorted, obs)
    ELSE Append(InsertByTsBeforeEqual(SubSeq(sorted, 1, Len(sorted) - 1), obs),
                sorted[Len(sorted)])

RECURSIVE InsertByTs(_, _)
InsertByTs(sorted, obs) ==
    IF sorted = <<>> THEN <<obs>>
    ELSE IF Ts(sorted[Len(sorted)]) <= Ts(obs) THEN Append(sorted, obs)
    ELSE Append(InsertByTs(SubSeq(sorted, 1, Len(sorted) - 1), obs),
                sorted[Len(sorted)])

RECURSIVE SortByTs(_)
SortByTs(timeline) ==
    IF timeline = <<>> THEN <<>>
    ELSE InsertByTs(SortByTs(SubSeq(timeline, 1, Len(timeline) - 1)),
                    timeline[Len(timeline)])

(* One pass of the merge loop: a result without a positive created_on is  *)
(* skipped, any other is appended to its key's list.                       *)
AppendResult(tm, key, obs) ==
    IF Ts(obs) <= 0 THEN tm
    ELSE IF key \in DOMAIN tm THEN [tm EXCEPT ![key] = Append(@, obs)]
    ELSE tm @@ (key :> <<obs>>)

SortTimelines(tm) == [k \in DOMAIN tm |-> SortByTs(tm[k])]

EmptyMap == [k \in {} |-> <<>>]
NoMetas == [r \in {} |-> <<>>]
NoFutures == [r \in {} |-> <<>>]

RECURSIVE FetchedMaps(_, _)
FetchedMaps(keys, n) ==
    IF n = 0 THEN {EmptyMap}
    ELSE LET prev == FetchedMaps(keys, n - 1)
         IN  prev \cup {AppendResult(tm, k, <<ts, st>>) :
                           tm \in prev, k \in keys,
                           ts \in RawTimestamps, st \in Statuses}

(* What fetch_all_results / fetch_results_for_runs_batch can return for n  *)
(* fetched results.                                                        *)
TestsMaps(keys, n) == {SortTimelines(tm) : tm \in FetchedMaps(keys, n)}

-----------------------------------------------------------------------------
(* compute_executed_series                                                 *)

Zeros(n) == [i \in 1..n |-> 0]

(* Variant of DayIdxOf: the end of a day compared with < instead of <=.    *)
DayIdxOfExclusiveEnd(ts, ds, de) ==
    LET hits == {i \in 1..Len(ds) : ds[i] <= ts /\ ts < de[i]}
    IN  IF hits # {} THEN Some((CHOOSE i \in hits : \A j \in hits : i <= j) - 1)
        ELSE IF ts < ds[1] THEN Some(-1)
        ELSE Some(Len(ds) - 1)

(* The inner loop over the days: the first day whose range holds ts, else  *)
(* -1 when ts is earlier than the first day, else the last day.            *)
DayIdxOf(ts, ds, de) ==
    LET hits == {i \in 1..Len(ds) : ds[i] <= ts /\ ts <= de[i]}
    IN  IF hits # {} THEN Some((CHOOSE i \in hits : \A j \in hits : i <= j) - 1)
        ELSE IF ts < ds[1] THEN Some(-1)
        ELSE Some(Len(ds) - 1)

(* Variant of FirstIdx: the loop without its break, so that the last       *)
(* executed observation decides.                                           *)
RECURSIVE FirstIdxNoBreak(_, _, _)
FirstIdxNoBreak(timeline, ds, de) ==
    IF timeline = <<>> THEN None
    ELSE IF St(timeline[Len(timeline)]) \in EXECUTED_FOR_COUNTS
         THEN DayIdxOf(Ts(timeline[Len(timeline)]), ds, de)
         ELSE FirstIdxNoBreak(SubSeq(timeline, 1, Len(timeline) - 1), ds, de)

(* The loop over one timeline: it stops at the first executed status.      *)
RECURSIVE FirstIdx(_, _, _)
FirstIdx(timeline, ds, de) ==
    IF timeline = <<>> THEN None
    ELSE IF St(Head(timeline)) \in EXECUTED_FOR_COUNTS
         THEN DayIdxOf(Ts(Head(timeline)), ds, de)
         ELSE FirstIdx(Tail(timeline), ds, de)

first_executed_day_idx(tm, n, z) ==
    [k \in DOMAIN tm |-> FirstIdx(tm[k], day_start_utc(n, z), day_end_utc(n, z))]

(* Variant of AddFrom: range(start + 1, ...).                              *)
AddFromOffByOne(cum, first_idx) ==
    LET start == IF first_idx = Some(-1) THEN 0 ELSE first_idx[1]
    IN  [i \in 1..Len(cum) |-> IF i - 1 > start THEN cum[i] + 1 ELSE cum[i]]

(* for di in range(start, len(ordered_days)): cumulative_per_day[di] += 1  *)
AddFrom(cum, first_idx) ==
    LET start == IF first_idx = Some(-1) THEN 0 ELSE first_idx[1]
    IN  [i \in 1..Len(cum) |-> IF i - 1 >= start THEN cum[i] + 1 ELSE cum[i]]

RECURSIVE CumulativeLoop(_, _, _)
CumulativeLoop(fidx, keys, cum) ==
    IF keys = {} THEN cum
    ELSE LET k == CHOOSE x \in keys : TRUE
         IN  CumulativeLoop(fidx, keys \ {k},
                            IF fidx[k] = None THEN cum ELSE AddFrom(cum, fidx[k]))

(* Variant of AddAt: = 1 instead of += 1.                                  *)
AddAtAssign(daily, first_idx) == [daily EXCEPT ![first_idx[1] + 1] = 1]

(* daily_presence[first_idx] += 1 *)
AddAt(daily, first_idx) == [daily EXCEPT ![first_idx[1] + 1] = @ + 1]

(* Variant of DailyLoop: a pair before the window is counted in day 0.     *)
RECURSIVE DailyLoopCountsBefore(_, _, _)
DailyLoopCountsBefore(fidx, keys, daily) ==
    IF keys = {} THEN daily
    ELSE LET k == CHOOSE x \in keys : TRUE
         IN  DailyLoopCountsBefore(fidx, keys \ {k},
                       IF fidx[k] = None THEN daily
                       ELSE AddAt(daily, Some(Max(0, fidx[k][1]))))

RECURSIVE DailyLoop(_, _, _)
DailyLoop(fidx, keys, daily) ==
    IF keys = {} THEN daily
    ELSE LET k == CHOOSE x \in keys : TRUE
         IN  DailyLoop(fidx, keys \ {k},
                       IF fidx[k] = None \/ fidx[k] = Some(-1) THEN daily
                       ELSE AddAt(daily, fidx[k]))

(* The defensive pass: every element is raised to its predecessor.         *)
RECURSIVE ClampFrom(_, _)
ClampFrom(cum, i) ==
    IF i > Len(cum) THEN cum
    ELSE ClampFrom(IF cum[i] < cum[i - 1] THEN [cum EXCEPT ![i] = cum[i - 1]]
                   ELSE cum, i + 1)

NonDecreasingClamp(cum) == ClampFrom(cum, 2)

cumulative_per_day(tm, n, z) ==
    CumulativeLoop(first_executed_day_idx(tm, n, z), DOMAIN tm,
                   Zeros(Len(ordered_days(n))))

daily_presence(tm, n, z) ==
    DailyLoop(first_executed_day_idx(tm, n, z), DOMAIN tm,
              Zeros(Len(ordered_days(n))))

(* Variant of compute_executed_series: the two series returned in the      *)
(* other order.                                                            *)
compute_executed_series_swapped(tm, n, z) ==
    <<ordered_days(n), NonDecreasingClamp(cumulative_per_day(tm, n, z)),
      daily_presence(tm, n, z)>>

(* The returned triple: ordered_days, daily_presence, cumulative_per_day.  *)
compute_executed_series(tm, n, z) ==
    <<ordered_days(n), daily_presence(tm, n, z),
      NonDecreasingClamp(cumulative_per_day(tm, n, z))>>

-----------------------------------------------------------------------------
-----------------------------------------------------------------------------
(* build_rows_and_grand_from_tests_map_with_metadata                       *)

(* fetch_run_meta returns {} on any failure, else the run's JSON object.   *)
EmptyMeta == <<>>
CounterMetas ==
    {[passed_count |-> 0, failed_count |-> 0, blocked_count |-> 1,
      untested_count |-> 1, retest_count |-> 1],
     [passed_count |-> 2, failed_count |-> 1, blocked_count |-> 1,
      untested_count |-> 0, retest_count |-> 1]}
(* A run object without the counter fields.                                *)
NameOnlyMetas == {[name |-> "Smoke (Chrome)"]}
Metas == {EmptyMeta} \cup CounterMetas \cup NameOnlyMetas

per_run_testids(tm) ==
    [r \in {k[1] : k \in DOMAIN tm} |-> {k[2] : k \in {x \in DOMAIN tm : x[1] = r}}]

(* Variant of last_status: the status of the oldest result.                *)
first_status(tm) == [k \in DOMAIN tm |-> St(tm[k][1])]

last_status(tm) == [k \in DOMAIN tm |-> St(tm[k][Len(tm[k])])]

run_ids_all(tm) == DOMAIN per_run_testids(tm) \cup RUN_IDS

(* int(meta.get(key, 0)) *)
MetaCount(meta, key) == IF key \in DOMAIN meta THEN meta[key] ELSE 0

(* Variant of MetaRow: planned leaves out the retest counter.              *)
MetaRowWithoutRetest(run_id, meta) ==
    LET meta_passed == MetaCount(meta, "passed_count")
        meta_blocked == MetaCount(meta, "blocked_count")
        meta_untested == MetaCount(meta, "untested_count")
        meta_failed == MetaCount(meta, "failed_count")
    IN  [run_id |-> run_id,
         planned |-> meta_passed + meta_blocked + meta_untested + meta_failed,
         executed |-> meta_passed + meta_failed,
         not_executed |-> meta_blocked + meta_untested,
         passed |-> meta_passed,
         failed |-> meta_failed]

(* The metadata branch of one run's row.                                   *)
MetaRow(run_id, meta) ==
    LET meta_passed == MetaCount(meta, "passed_count")
        meta_blocked == MetaCount(meta, "blocked_count")
        meta_untested == MetaCount(meta, "untested_count")
        meta_retest == MetaCount(meta, "retest_count")
        meta_failed == MetaCount(meta, "failed_count")
    IN  [run_id |-> run_id,
         planned |-> meta_passed + meta_blocked + meta_untested + meta_retest
                     + meta_failed,
         executed |-> meta_passed + meta_failed,
         not_executed |-> meta_blocked + meta_untested,
         passed |-> meta_passed,
         failed |-> meta_failed]

(* Variant of TallyRow: every observed test counts as executed.            *)
TallyRowExecutedAll(run_id, tm) ==
    LET testids == IF run_id \in DOMAIN per_run_testids(tm)
                   THEN per_run_testids(tm)[run_id] ELSE {}
        passed == Cardinality({t \in testids : last_status(tm)[<<run_id, t>>] = 1})
        failed == Cardinality({t \in testids : last_status(tm)[<<run_id, t>>] = 5})
    IN  [run_id |-> run_id,
         planned |-> Cardinality(testids),
         executed |-> Cardinality(testids),
         not_executed |-> 0,
         passed |-> passed,
         failed |-> failed]

(* The fallback branch: the tally of the last status of every test.        *)
TallyRow(run_id, tm) ==
    LET testids == IF run_id \in DOMAIN per_run_testids(tm)
                   THEN per_run_testids(tm)[run_id] ELSE {}
        passed == Cardinality({t \in testids : last_status(tm)[<<run_id, t>>] = 1})
        failed == Cardinality({t \in testids : last_status(tm)[<<run_id, t>>] = 5})
    IN  [run_id |-> run_id,
         planned |-> Cardinality(testids),
         executed |-> passed + failed,
         not_executed |-> Cardinality(testids) - (passed + failed),
         passed |-> passed,
         failed |-> failed]

(* Variant of RowOf: the metadata branch whatever the fetch returned.      *)
RowOfMetaOnly(run_id, tm, meta) == MetaRow(run_id, meta)

RowOf(run_id, tm, meta) ==
    IF DOMAIN meta # {} THEN MetaRow(run_id, meta) ELSE TallyRow(run_id, tm)

(* Variant of RowsLoop: the runs taken from the largest id down.           *)
RECURSIVE RowsLoopDescending(_, _, _)
RowsLoopDescending(run_ids, tm, store) ==
    IF run_ids = {} THEN <<>>
    ELSE LET r == CHOOSE x \in run_ids : \A y \in run_ids : x >= y
         IN  <<RowOf(r, tm, store[r])>>
               \o RowsLoopDescending(run_ids \ {r}, tm, store)

RECURSIVE RowsLoop(_, _, _)
RowsLoop(run_ids, tm, store) ==
    IF run_ids = {} THEN <<>>
    ELSE LET r == CHOOSE x \in run_ids : \A y \in run_ids : x <= y
         IN  <<RowOf(r, tm, store[r])>> \o RowsLoop(run_ids \ {r}, tm, store)

build_rows(tm, store) == RowsLoop(run_ids_all(tm), tm, store)

RECURSIVE SumField(_, _)
SumField(rs, f) == IF rs = <<>> THEN 0 ELSE rs[1][f] + SumField(Tail(rs), f)

(* Variant of build_grand: Not Executed derived from the other two totals. *)
build_grand_derived(rs) ==
    [Planned |-> SumField(rs, "planned"),
     Executed |-> SumField(rs, "executed"),
     NotExecuted |-> SumField(rs, "planned") - SumField(rs, "executed"),
     Passed |-> SumField(rs, "passed"),
     Failed |-> SumField(rs, "failed")]

build_grand(rs) ==
    [Planned |-> SumField(rs, "planned"),
     Executed |-> SumField(rs, "executed"),
     NotExecuted |-> SumField(rs, "not_executed"),
     Passed |-> SumField(rs, "passed"),
     Failed |-> SumField(rs, "failed")]

NoGrand == [Planned |-> 0, Executed |-> 0, NotExecuted |-> 0, Passed |-> 0,
            Failed |-> 0]

-----------------------------------------------------------------------------
(* The reconciliation block of main (and, statement for statement, of      *)
(* write_per_plan_jsons).                                                  *)

CurrentLast(cum) == IF cum # <<>> THEN cum[Len(cum)] ELSE 0

(* Variant of MissingFromMeta: abs() instead of max(0, ...).               *)
MissingFromMetaAbs(cum, meta_executed) ==
    IF meta_executed >= CurrentLast(cum) THEN meta_executed - CurrentLast(cum)
    ELSE CurrentLast(cum) - meta_executed

MissingFromMeta(cum, meta_executed) == Max(0, meta_executed - CurrentLast(cum))

(* Variant of AddMissing: only the last element is raised.                 *)
AddMissingTailOnly(cum, missing) ==
    IF missing > 0 THEN [cum EXCEPT ![Len(cum)] = @ + missing] ELSE cum

AddMissing(cum, missing) ==
    IF missing > 0 THEN [i \in 1..Len(cum) |-> cum[i] + missing] ELSE cum

Reconcile(cum, meta_executed) ==
    NonDecreasingClamp(AddMissing(cum, MissingFromMeta(cum, meta_executed)))

-----------------------------------------------------------------------------
(* save_json_output                                                        *)

(* Variant of save_json_output: source_discrepancy left at its default 0.  *)
save_json_output_default(dates, daily_results, cumulative, rs, g, source_discrepancy) ==
    [dates |-> dates,
     daily_results |-> daily_results,
     cumulative |-> cumulative,
     source_discrepancy |-> 0,
     rows |-> rs,
     grand |-> g]

save_json_output(dates, daily_results, cumulative, rs, g, source_discrepancy) ==
    [dates |-> dates,
     daily_results |-> daily_results,
     cumulative |-> cumulative,
     source_discrepancy |-> source_discrepancy,
     rows |-> rs,
     grand |-> g]

-----------------------------------------------------------------------------
(* The state of the modules that a specification does not exercise.        *)
OmniIdle ==
    /\ pc = "fetch"
    /\ scope = "global"
    /\ dry_run = FALSE
    /\ days = MaxDays
    /\ tz = FixedZone
    /\ tests_map = EmptyMap
    /\ executed_series = <<>>
    /\ cumulative_series = <<>>
    /\ rows = <<>>
    /\ grand = NoGrand
    /\ current_last = 0
    /\ missing_from_meta = 0
    /\ payload = None
    /\ meta_store = NoMetas
    /\ futures = NoFutures
    /\ returned = NoFutures
    /\ consumed = {}

TableIdle ==
    /\ run_rows = <<>>
    /\ plan_name_map = <<>>
    /\ plan_info = <<>>
    /\ table = None

MainIdle ==
    /\ main_pc = "write"
    /\ args_dry_run = FALSE
    /\ plan_ids = <<>>
    /\ todo_plans = <<>>
    /\ disk = <<>>
    /\ produced_files = <<>>
    /\ exit_code = None

JiraIdle ==
    /\ jira_pc = "post"
    /\ safe_jql = TRUE
    /\ max_pages = 0
    /\ posts = 0
    /\ pages = 0
    /\ total = 0
    /\ last_response = ""
    /\ count = None

OrchIdle ==
    /\ orch_pc = "omni"
    /\ no_charts = FALSE
    /\ skip_jira = FALSE
    /\ stages = <<>>
    /\ failed_stages = {}
    /\ rc = None
    /\ rc_out = None
    /\ orch_rc = None

AtomIdle ==
    /\ atom_pc = "mkdir"
    /\ writer = "json"
    /\ data_size = 1
    /\ previous = <<>>
    /\ target = <<>>
    /\ tmp = <<>>
    /\ unlink_failed = FALSE
    /\ write_result = None

CountsIdle ==
    /\ counts_pc = "start"
    /\ filters = <<>>
    /\ credentials = TRUE
    /\ no_cache = FALSE
    /\ force = FALSE
    /\ clock = 0
    /\ disk_cache = <<>>
    /\ cache = <<>>
    /\ norm = <<>>
    /\ counts_by_name = <<>>
    /\ fetched = <<>>

notOmniIdle == TableIdle /\ MainIdle /\ JiraIdle /\ OrchIdle /\ AtomIdle /\ CountsIdle
notTableIdle == OmniIdle /\ MainIdle /\ JiraIdle /\ OrchIdle /\ AtomIdle /\ CountsIdle
notMainIdle == OmniIdle /\ TableIdle /\ JiraIdle /\ OrchIdle /\ AtomIdle /\ CountsIdle
notJiraIdle == OmniIdle /\ TableIdle /\ MainIdle /\ OrchIdle /\ AtomIdle /\ CountsIdle
notOrchIdle == OmniIdle /\ TableIdle /\ MainIdle /\ JiraIdle /\ AtomIdle /\ CountsIdle
notAtomIdle == OmniIdle /\ TableIdle /\ MainIdle /\ JiraIdle /\ OrchIdle /\ CountsIdle
notCountsIdle == OmniIdle /\ TableIdle /\ MainIdle /\ JiraIdle /\ OrchIdle /\ AtomIdle

(* The pipeline: main for the global results, and the body of the plan     *)
(* loop of write_per_plan_jsons for one plan.                              *)

Init ==
    /\ pc = "fetch"
    /\ scope \in {"global", "plan"}
    /\ dry_run \in BOOLEAN
    /\ days \in 1..MaxDays
    /\ tz \in TimeZones
    /\ tests_map = EmptyMap
    /\ executed_series = <<>>
    /\ cumulative_series = <<>>
    /\ rows = <<>>
    /\ grand = NoGrand
    /\ current_last = 0
    /\ missing_from_meta = 0
    /\ payload = None
    /\ meta_store = NoMetas
    /\ futures = NoFutures
    /\ returned = NoFutures
    /\ consumed = {}
    /\ notOmniIdle

(* fetch_all_results(RUN_IDS) in main *)
FetchAllResults ==
    /\ pc = "fetch"
    /\ scope = "global"
    /\ \E tm \in TestsMaps(Keys, MaxResults) : tests_map' = tm
    /\ pc' = "series"
    /\ UNCHANGED <<scope, dry_run, days, tz, executed_series, cumulative_series,
                   rows, grand, current_last, missing_from_meta, payload>>
    /\ UNCHANGED <<meta_store, futures, returned, consumed>>
    /\ UNCHANGED notOmni

(* fetch_results_for_runs_batch(plan_runs); a plan without results is      *)
(* skipped.                                                                *)
FetchPlanResults ==
    /\ pc = "fetch"
    /\ scope = "plan"
    /\ \E tm \in TestsMaps(PlanKeys, MaxResults) :
          /\ tests_map' = tm
          /\ pc' = IF tm = EmptyMap THEN "skipped" ELSE "series"
    /\ UNCHANGED <<scope, dry_run, days, tz, executed_series, cumulative_series,
                   rows, grand, current_last, missing_from_meta, payload>>
    /\ UNCHANGED <<meta_store, futures, returned, consumed>>
    /\ UNCHANGED notOmni

(* With days <= 0 the window lists are empty: the inner loop over the days  *)
(* finds nothing and day_start_utc[0] raises IndexError for the first      *)
(* timeline that holds an executed status.                                 *)
RaisesIndexError(tm, n) ==
    /\ n <= 0
    /\ \E k \in DOMAIN tm :
          \E i \in 1..Len(tm[k]) : St(tm[k][i]) \in EXECUTED_FOR_COUNTS

ComputeSeries ==
    /\ pc = "series"
    /\ IF RaisesIndexError(tests_map, days)
       THEN /\ pc' = "IndexError"
            /\ UNCHANGED <<executed_series, cumulative_series>>
       ELSE /\ pc' = "rows"
            /\ executed_series' = compute_executed_series(tests_map, days, tz)[2]
            /\ cumulative_series' = compute_executed_series(tests_map, days, tz)[3]
    /\ UNCHANGED <<scope, dry_run, days, tz, tests_map, rows, grand, current_last,
                   missing_from_meta, payload>>
    /\ UNCHANGED <<meta_store, futures, returned, consumed>>
    /\ UNCHANGED notOmni

BuildRows ==
    /\ pc = "rows"
    /\ pc' = "reconcile"
    /\ \E ms \in [run_ids_all(tests_map) -> Metas] :
          /\ meta_store' = ms
          /\ rows' = build_rows(tests_map, ms)
          /\ grand' = build_grand(build_rows(tests_map, ms))
    /\ UNCHANGED <<scope, dry_run, days, tz, tests_map, executed_series,
                   cumulative_series, current_last, missing_from_meta, payload>>
    /\ UNCHANGED poolVars
    /\ UNCHANGED notOmni

ReconcileStep ==
    /\ pc = "reconcile"
    /\ pc' = "save"
    /\ current_last' = CurrentLast(cumulative_series)
    /\ missing_from_meta' = MissingFromMeta(cumulative_series, grand.Executed)
    /\ cumulative_series' = Reconcile(cumulative_series, grand.Executed)
    /\ UNCHANGED <<scope, dry_run, days, tz, tests_map, executed_series, rows,
                   grand, payload>>
    /\ UNCHANGED <<meta_store, futures, returned, consumed>>
    /\ UNCHANGED notOmni

SaveJson ==
    /\ pc = "save"
    /\ ~dry_run
    /\ pc' = "done"
    /\ payload' = Some(save_json_output(ordered_days(days), executed_series,
                                        cumulative_series, rows, grand,
                                        missing_from_meta))
    /\ UNCHANGED <<scope, dry_run, days, tz, tests_map, executed_series,
                   cumulative_series, rows, grand, current_last,
                   missing_from_meta>>
    /\ UNCHANGED <<meta_store, futures, returned, consumed>>
    /\ UNCHANGED notOmni

(* Dry-run: main skips every write. *)
SkipWrites ==
    /\ pc = "save"
    /\ dry_run
    /\ pc' = "done"
    /\ UNCHANGED <<scope, dry_run, days, tz, tests_map, executed_series,
                   cumulative_series, rows, grand, current_last,
                   missing_from_meta, payload>>
    /\ UNCHANGED <<meta_store, futures, returned, consumed>>
    /\ UNCHANGED notOmni

Next ==
    \/ FetchAllResults
    \/ FetchPlanResults
    \/ ComputeSeries
    \/ BuildRows
    \/ ReconcileStep
    \/ SaveJson
    \/ SkipWrites

Spec == Init /\ [][Next]_vars

-----------------------------------------------------------------------------
(* compute_executed_series alone, on any timeline store the fetch can      *)
(* return, any window size and either zone.                                *)

InitSeries ==
    /\ pc = "series"
    /\ scope = "global"
    /\ dry_run = FALSE
    /\ days \in 1..MaxDays
    /\ tz \in TimeZones
    /\ tests_map \in TestsMaps(Keys, MaxObs)
    /\ executed_series = <<>>
    /\ cumulative_series = <<>>
    /\ rows = <<>>
    /\ grand = NoGrand
    /\ current_last = 0
    /\ missing_from_meta = 0
    /\ payload = None
    /\ meta_store = NoMetas
    /\ futures = NoFutures
    /\ returned = NoFutures
    /\ consumed = {}
    /\ notOmniIdle

NextSeries == ComputeSeries

SpecSeries == InitSeries /\ [][NextSeries]_vars

-----------------------------------------------------------------------------
(* build_rows_and_grand_from_tests_map_with_metadata alone, on timeline    *)
(* stores with several tests in a run, several results in a timeline and a *)
(* run that is not in RUN_IDS (a plan's run).                              *)

RowsKeys == {<<1, 1>>, <<1, 2>>, <<3, 1>>}

(* The stores n fetched results can leave, the k-th result created at      *)
(* second k.                                                               *)
RECURSIVE StoredMaps(_, _)
StoredMaps(keys, n) ==
    IF n = 0 THEN {EmptyMap}
    ELSE LET prev == StoredMaps(keys, n - 1)
         IN  prev \cup {SortTimelines(AppendResult(tm, k, <<n, st>>)) :
                           tm \in prev, k \in keys, st \in Statuses}

InitRows ==
    /\ pc = "rows"
    /\ scope = "global"
    /\ dry_run = FALSE
    /\ days = MaxDays
    /\ tz = FixedZone
    /\ tests_map \in StoredMaps(RowsKeys, MaxObs)
    /\ executed_series = compute_executed_series(tests_map, days, tz)[2]
    /\ cumulative_series = compute_executed_series(tests_map, days, tz)[3]
    /\ rows = <<>>
    /\ grand = NoGrand
    /\ current_last = 0
    /\ missing_from_meta = 0
    /\ payload = None
    /\ meta_store = NoMetas
    /\ futures = NoFutures
    /\ returned = NoFutures
    /\ consumed = {}
    /\ notOmniIdle

NextRows == BuildRows

SpecRows == InitRows /\ [][NextRows]_vars

-----------------------------------------------------------------------------
(* The two concurrent phases of one pipeline run, task by task: the        *)
(* results fetch (fetch_all_results for main, fetch_results_for_runs_batch *)
(* for a plan) and the metadata fetch of the summary builder.  Each phase  *)
(* submits one task per run to a ThreadPoolExecutor and goes through the   *)
(* futures in completion order (as_completed); the statements after the    *)
(* with block run once the loop has gone through every future.             *)

MAX_NETWORK_WORKERS == 8

Min(a, b) == IF a <= b THEN a ELSE b

(* max_workers=min(max_workers, max(1, len(run_ids_list)))                  *)
PoolSize(n) == Min(MAX_NETWORK_WORKERS, Max(1, n))

FetchPlanRuns == {2, 3}         \* a plan with a run that is not in RUN_IDS

FetchRunIds(sc) == IF sc = "global" THEN RUN_IDS ELSE FetchPlanRuns

(* What one fetch_results_for_run call can return: [] on any failure or    *)
(* for a run without results, else the raw results of the run.             *)
RawResult(ts, st) == [test_id |-> 1, created_on |-> ts, status_id |-> st]

FetchedResults ==
    {<<>>}
      \cup {<<RawResult(ts, st)>> : ts \in {0, Midnight}, st \in {1, 3}}
      \cup {<<RawResult(Midnight, 3), RawResult(Midnight - 1, 1)>>,
            <<RawResult(Midnight, 1), RawResult(Midnight, 3)>>}

(* Variant of MergeResults: an empty result list empties the store.        *)
RECURSIVE MergeResultsResetOnEmpty(_, _, _)
MergeResultsResetOnEmpty(tm, rid, results) ==
    IF results = <<>> THEN EmptyMap
    ELSE AppendResult(
             IF Len(results) = 1 THEN tm
             ELSE MergeResultsResetOnEmpty(tm, rid,
                                           SubSeq(results, 1, Len(results) - 1)),
             <<rid, results[Len(results)].test_id>>,
             <<results[Len(results)].created_on, results[Len(results)].status_id>>)

(* The merge of one completed future's results into tests_map.             *)
RECURSIVE MergeResults(_, _, _)
MergeResults(tm, rid, results) ==
    IF results = <<>> THEN tm
    ELSE MergeResults(AppendResult(tm, <<rid, results[1].test_id>>,
                                   <<results[1].created_on, results[1].status_id>>),
                      rid, Tail(results))

Running == {r \in DOMAIN futures : futures[r] = "running"}

(* Variant of AllCompleted: the loop ends after the first future.          *)
AnyCompleted(fs, done) == done # {}

(* for fut in as_completed(...) ends when it has yielded every future.     *)
AllCompleted(fs, done) == done = DOMAIN fs

SubmitResultFetches ==
    /\ pc = "fetch"
    /\ pc' = "collect_results"
    /\ futures' = [r \in FetchRunIds(scope) |-> "pending"]
    /\ returned' = NoFutures
    /\ consumed' = {}
    /\ UNCHANGED <<scope, dry_run, days, tz, tests_map, executed_series,
                   cumulative_series, rows, grand, current_last,
                   missing_from_meta, payload, meta_store>>
    /\ UNCHANGED notOmni

(* A worker thread picks a queued task.                                    *)
StartTask(r) ==
    /\ pc \in {"collect_results", "collect_metas"}
    /\ r \in DOMAIN futures
    /\ futures[r] = "pending"
    /\ Cardinality(Running) < PoolSize(Cardinality(DOMAIN futures))
    /\ futures' = [futures EXCEPT ![r] = "running"]
    /\ UNCHANGED <<pc, scope, dry_run, days, tz, tests_map, executed_series,
                   cumulative_series, rows, grand, current_last,
                   missing_from_meta, payload, meta_store, returned, consumed>>
    /\ UNCHANGED notOmni

(* fetch_results_for_run returns in its worker thread.                     *)
FinishResultsTask(r) ==
    /\ pc = "collect_results"
    /\ r \in DOMAIN futures
    /\ futures[r] = "running"
    /\ \E results \in FetchedResults : returned' = returned @@ (r :> results)
    /\ futures' = [futures EXCEPT ![r] = "done"]
    /\ UNCHANGED <<pc, scope, dry_run, days, tz, tests_map, executed_series,
                   cumulative_series, rows, grand, current_last,
                   missing_from_meta, payload, meta_store, consumed>>
    /\ UNCHANGED notOmni

(* One pass of the as_completed loop of the results fetch.                 *)
MergeCompleted(r) ==
    /\ pc = "collect_results"
    /\ r \in DOMAIN futures
    /\ futures[r] = "done"
    /\ r \notin consumed
    /\ tests_map' = MergeResults(tests_map, r, returned[r])
    /\ consumed' = consumed \cup {r}
    /\ UNCHANGED <<pc, scope, dry_run, days, tz, executed_series,
                   cumulative_series, rows, grand, current_last,
                   missing_from_meta, payload, meta_store, futures, returned>>
    /\ UNCHANGED notOmni

(* After the with block: the timelines are sorted and the store returned;  *)
(* a plan without results is skipped.                                      *)
SortAfterPool ==
    /\ pc = "collect_results"
    /\ AllCompleted(futures, consumed)
    /\ tests_map' = SortTimelines(tests_map)
    /\ pc' = IF scope = "plan" /\ tests_map = EmptyMap THEN "skipped" ELSE "series"
    /\ UNCHANGED <<scope, dry_run, days, tz, executed_series,
                   cumulative_series, rows, grand, current_last,
                   missing_from_meta, payload, meta_store, futures, returned,
                   consumed>>
    /\ UNCHANGED notOmni

SubmitMetaFetches ==
    /\ pc = "rows"
    /\ pc' = "collect_metas"
    /\ futures' = [r \in run_ids_all(tests_map) |-> "pending"]
    /\ returned' = NoFutures
    /\ consumed' = {}
    /\ meta_store' = NoMetas
    /\ UNCHANGED <<scope, dry_run, days, tz, tests_map, executed_series,
                   cumulative_series, rows, grand, current_last,
                   missing_from_meta, payload>>
    /\ UNCHANGED notOmni

(* fetch_run_meta returns in its worker thread: {} on any failure.         *)
FinishMetaTask(r) ==
    /\ pc = "collect_metas"
    /\ r \in DOMAIN futures
    /\ futures[r] = "running"
    /\ \E meta \in Metas : returned' = returned @@ (r :> meta)
    /\ futures' = [futures EXCEPT ![r] = "done"]
    /\ UNCHANGED <<pc, scope, dry_run, days, tz, tests_map, executed_series,
                   cumulative_series, rows, grand, current_last,
                   missing_from_meta, payload, meta_store, consumed>>
    /\ UNCHANGED notOmni

(* One pass of the as_completed loop of the metadata fetch.                *)
StoreMeta(r) ==
    /\ pc = "collect_metas"
    /\ r \in DOMAIN futures
    /\ futures[r] = "done"
    /\ r \notin consumed
    /\ meta_store' = meta_store @@ (r :> returned[r])
    /\ consumed' = consumed \cup {r}
    /\ UNCHANGED <<pc, scope, dry_run, days, tz, tests_map, executed_series,
                   cumulative_series, rows, grand, current_last,
                   missing_from_meta, payload, futures, returned>>
    /\ UNCHANGED notOmni

(* After the with block: the loop over run_ids_all, the totals, the sort.  *)
TallyRows ==
    /\ pc = "collect_metas"
    /\ AllCompleted(futures, consumed)
    /\ pc' = "reconcile"
    /\ rows' = build_rows(tests_map,
                          [r \in run_ids_all(tests_map) |->
                              IF r \in DOMAIN meta_store THEN meta_store[r]
                              ELSE EmptyMeta])
    /\ grand' = build_grand(rows')
    /\ UNCHANGED <<scope, dry_run, days, tz, tests_map, executed_series,
                   cumulative_series, current_last, missing_from_meta, payload,
                   meta_store, futures, returned, consumed>>
    /\ UNCHANGED notOmni

InitFetch ==
    /\ pc = "fetch"
    /\ scope \in {"global", "plan"}
    /\ dry_run = FALSE
    /\ days = MaxDays
    /\ tz = FixedZone
    /\ tests_map = EmptyMap
    /\ executed_series = <<>>
    /\ cumulative_series = <<>>
    /\ rows = <<>>
    /\ grand = NoGrand
    /\ current_last = 0
    /\ missing_from_meta = 0
    /\ payload = None
    /\ meta_store = NoMetas
    /\ futures = NoFutures
    /\ returned = NoFutures
    /\ consumed = {}
    /\ notOmniIdle

NextFetch ==
    \/ SubmitResultFetches
    \/ \E r \in RUN_IDS \cup FetchPlanRuns : StartTask(r)
    \/ \E r \in RUN_IDS \cup FetchPlanRuns : FinishResultsTask(r)
    \/ \E r \in RUN_IDS \cup FetchPlanRuns : MergeCompleted(r)
    \/ SortAfterPool
    \/ ComputeSeries
    \/ SubmitMetaFetches
    \/ \E r \in RUN_IDS \cup FetchPlanRuns : FinishMetaTask(r)
    \/ \E r \in RUN_IDS \cup FetchPlanRuns : StoreMeta(r)
    \/ TallyRows
    \/ ReconcileStep

SpecFetch == InitFetch /\ [][NextFetch]_vars

-----------------------------------------------------------------------------
(* table_testruns.build_testruns_table: the rows are normalised, grouped   *)
(* by plan_key, the "Unplanned" group is remapped to a plan's name when    *)
(* one of its rows matches a candidate plan, and the groups are shown in   *)
(* sorted order with "Unplanned" last, each with its TOTAL row.            *)
(* A missing, None or empty plan field is the empty string here.           *)

MaxRows == 2        \* rows given to build_testruns_table

Unplanned == "Unplanned"
DefaultPlanId == 222            \* the plan id always tried by the remap

(* sorted() on the plan names of this model, and str.isdigit / int.        *)
SortedNames == <<"7", "Beta", "Release", "Zeta">>
DigitKeys == {"7"}
KeyToInt(k) == IF k = "7" THEN 7 ELSE DefaultPlanId

RawRows ==
    {[run_id |-> rid, plan |-> p, plan_id |-> pid,
      planned |-> IF rid = 1 THEN 2 ELSE 3,
      executed |-> IF rid = 1 THEN 1 ELSE 2,
      not_executed |-> 1,
      passed |-> 1,
      failed |-> IF rid = 1 THEN 0 ELSE 1] :
        rid \in {1, DefaultPlanId}, p \in {"", "Beta", "Zeta"}, pid \in {"", "7"}}

RECURSIVE RowLists(_)
RowLists(n) ==
    IF n = 0 THEN {<<>>}
    ELSE RowLists(n - 1)
           \cup {Append(l, r) : l \in {x \in RowLists(n - 1) : Len(x) = n - 1},
                                r \in RawRows}

PlanNameMaps ==
    {<<>>, DefaultPlanId :> "Release", DefaultPlanId :> "Beta",
     DefaultPlanId :> Unplanned}

PlanInfos ==
    {<<>>, DefaultPlanId :> [name |-> "Release", run_ids |-> {1}],
     7 :> [name |-> "Zeta", run_ids |-> {1}]}

(* The first candidate field that is not None or "".                       *)
plan_key(r) ==
    IF r.plan # "" THEN r.plan
    ELSE IF r.plan_id # "" THEN r.plan_id
    ELSE Unplanned

_normalize_row(r) ==
    [run_id |-> r.run_id, planned |-> r.planned, executed |-> r.executed,
     not_executed |-> r.not_executed, passed |-> r.passed, failed |-> r.failed,
     plan_key |-> plan_key(r)]

(* groups: the keys in order of first appearance and each key's rows.      *)
RECURSIVE GroupRows(_, _)
GroupRows(rs, groups) ==
    IF rs = <<>> THEN groups
    ELSE LET r == rs[1]
             k == r.plan_key
         IN  GroupRows(Tail(rs),
                 IF k \in DOMAIN groups.rows
                 THEN [groups EXCEPT !.rows[k] = Append(@, r)]
                 ELSE [keys |-> Append(groups.keys, k),
                       rows |-> groups.rows @@ (k :> <<r>>)])

NoGroups == [keys |-> <<>>, rows |-> <<>>]

(* The numeric keys in dict order, then 222 if it is not among them.       *)
candidate_plan_ids(groups) ==
    LET digits == SelectSeq(groups.keys, LAMBDA k : k \in DigitKeys)
        ids == [i \in 1..Len(digits) |-> KeyToInt(digits[i])]
    IN  IF \E i \in 1..Len(ids) : ids[i] = DefaultPlanId THEN ids
        ELSE [i \in 1..(Len(ids) + 1) |->
                 IF i <= Len(ids) THEN ids[i] ELSE DefaultPlanId]

HasRunId(rs, rid) == \E i \in 1..Len(rs) : rs[i].run_id = rid

(* groups[name] = groups.get(name, []) + groups.pop("Unplanned"): the      *)
(* right-hand side reads groups[name] before the pop removes "Unplanned".  *)
MoveUnplanned(groups, name) ==
    LET existing == IF name \in DOMAIN groups.rows THEN groups.rows[name]
                    ELSE <<>>
        moved == groups.rows[Unplanned]
        kept == SelectSeq(groups.keys, LAMBDA k : k # Unplanned)
    IN  [keys |-> IF \E i \in 1..Len(kept) : kept[i] = name THEN kept
                  ELSE Append(kept, name),
         rows |-> [k \in (DOMAIN groups.rows \ {Unplanned}) \cup {name} |->
                      IF k = name THEN existing \o moved ELSE groups.rows[k]]]

(* First candidate whose PLAN_NAME_MAP name is set and whose id is the     *)
(* run_id of an unplanned row.                                             *)
QuickMatches(groups, ids, names) ==
    {i \in 1..Len(ids) :
        /\ ids[i] \in DOMAIN names
        /\ names[ids[i]] # ""
        /\ HasRunId(groups.rows[Unplanned], ids[i])}

(* First candidate whose TestRail plan holds the run of an unplanned row.  *)
ApiMatches(groups, ids, infos) ==
    {i \in 1..Len(ids) :
        /\ ids[i] \in DOMAIN infos
        /\ \E rid \in infos[ids[i]].run_ids :
               HasRunId(groups.rows[Unplanned], rid)}

MinOf(S) == CHOOSE x \in S : \A y \in S : x <= y

_remap_unplanned_by_plan_run_ids(groups, ids, names, infos) ==
    IF Unplanned \notin DOMAIN groups.rows THEN groups
    ELSE IF QuickMatches(groups, ids, names) # {}
    THEN MoveUnplanned(groups, names[ids[MinOf(QuickMatches(groups, ids, names))]])
    ELSE IF ApiMatches(groups, ids, infos) # {}
    THEN MoveUnplanned(groups, infos[ids[MinOf(ApiMatches(groups, ids, infos))]].name)
    ELSE groups

(* sorted(k for k in groups if k != "Unplanned"), then "Unplanned".        *)
plan_keys(groups) ==
    LET named == SelectSeq(SortedNames, LAMBDA k : k \in DOMAIN groups.rows)
    IN  IF Unplanned \in DOMAIN groups.rows THEN Append(named, Unplanned)
        ELSE named

RECURSIVE SumRowsField(_, _, _)
SumRowsField(rs, f, n) ==
    IF n = 0 THEN 0 ELSE SumRowsField(rs, f, n - 1) + rs[n][f]

GroupTotal(rs) ==
    [planned |-> SumRowsField(rs, "planned", Len(rs)),
     executed |-> SumRowsField(rs, "executed", Len(rs)),
     not_executed |-> SumRowsField(rs, "not_executed", Len(rs)),
     passed |-> SumRowsField(rs, "passed", Len(rs)),
     failed |-> SumRowsField(rs, "failed", Len(rs))]

(* The rendered table: per shown group its key, its rows and its TOTAL.    *)
build_testruns_table(raw, names, infos) ==
    LET normalized == [i \in 1..Len(raw) |-> _normalize_row(raw[i])]
        grouped == GroupRows(normalized, NoGroups)
        groups == _remap_unplanned_by_plan_run_ids(
                      grouped, candidate_plan_ids(grouped), names, infos)
        shown == plan_keys(groups)
    IN  [i \in 1..Len(shown) |->
            [plan_key |-> shown[i],
             rows |-> groups.rows[shown[i]],
             total |-> GroupTotal(groups.rows[shown[i]])]]

InitTable ==
    /\ run_rows \in RowLists(MaxRows)
    /\ plan_name_map \in PlanNameMaps
    /\ plan_info \in PlanInfos
    /\ table = None
    /\ notTableIdle

BuildTable ==
    /\ table = None
    /\ table' = Some(build_testruns_table(run_rows, plan_name_map, plan_info))
    /\ UNCHANGED <<run_rows, plan_name_map, plan_info>>
    /\ UNCHANGED notTable

NextTable == BuildTable

SpecTable == InitTable /\ [][NextTable]_vars

-----------------------------------------------------------------------------
(* omni.main from the choice of the output path on: the global results     *)
(* JSON, the per-plan JSON files and the produced_files manifest.  A file  *)
(* is "absent", "old" (left by an earlier run) or "new" (written by this   *)
(* run); _atomic_write_json either puts the new content in place or        *)
(* leaves the file as it was and returns False.                            *)

CHART_PLAN_IDS == <<7, 9>>
PlanIdLists == {<<>>, <<7>>, CHART_PLAN_IDS}
PlanIds == {CHART_PLAN_IDS[i] : i \in 1..Len(CHART_PLAN_IDS)}
FileStates == {"absent", "old"}

Disks ==
    [global : FileStates, manifest : FileStates, plans : [PlanIds -> FileStates]]

NoProduced == [global |-> <<>>, per_plan |-> <<>>]

(* if not ok: return 3, read as "main goes on whatever ok is".             *)
AbortsNever(ok) == FALSE

(* if not ok: return 3                                                     *)
AbortsOnFailedSave(ok) == ~ok

InitMain ==
    /\ main_pc = "write"
    /\ args_dry_run \in BOOLEAN
    /\ plan_ids \in PlanIdLists
    /\ todo_plans = <<>>
    /\ disk \in Disks
    /\ produced_files = NoProduced
    /\ exit_code = None
    /\ notMainIdle

(* if args.dry_run: only a log line.                                       *)
SkipJsonWrites ==
    /\ main_pc = "write"
    /\ args_dry_run
    /\ main_pc' = "summary"
    /\ UNCHANGED <<args_dry_run, plan_ids, todo_plans, disk, produced_files,
                   exit_code>>
    /\ UNCHANGED notMain

(* save_json_output of the global results; on False main returns 3.        *)
SaveGlobalJson ==
    /\ main_pc = "write"
    /\ ~args_dry_run
    /\ \E ok \in BOOLEAN :
          /\ disk' = IF ok THEN [disk EXCEPT !.global = "new"] ELSE disk
          /\ IF AbortsOnFailedSave(ok)
             THEN /\ main_pc' = "returned"
                  /\ exit_code' = Some(3)
                  /\ UNCHANGED <<produced_files, todo_plans>>
             ELSE /\ main_pc' = "plans"
                  /\ exit_code' = exit_code
                  /\ produced_files' =
                         [produced_files EXCEPT !.global = Append(@, "global")]
                  /\ todo_plans' = plan_ids
    /\ UNCHANGED <<args_dry_run, plan_ids>>
    /\ UNCHANGED notMain

(* One turn of the loop of write_per_plan_jsons: the plan is skipped (no   *)
(* runs, no results, or an exception), or its JSON is written, or the      *)
(* write fails.                                                            *)
WritePlanJson ==
    /\ main_pc = "plans"
    /\ todo_plans # <<>>
    /\ \E outcome \in {"skipped", "written", "failed"} :
          LET plan_id == Head(todo_plans)
          IN  /\ disk' = IF outcome = "written"
                         THEN [disk EXCEPT !.plans[plan_id] = "new"]
                         ELSE disk
              /\ produced_files' =
                     IF outcome = "written"
                     THEN [produced_files EXCEPT !.per_plan = Append(@, plan_id)]
                     ELSE produced_files
    /\ todo_plans' = Tail(todo_plans)
    /\ UNCHANGED <<main_pc, args_dry_run, plan_ids, exit_code>>
    /\ UNCHANGED notMain

(* _atomic_write_json(manifest, produced_files); its result is not read.   *)
WriteManifest ==
    /\ main_pc = "plans"
    /\ todo_plans = <<>>
    /\ \E ok \in BOOLEAN :
          disk' = IF ok THEN [disk EXCEPT !.manifest = "new"] ELSE disk
    /\ main_pc' = "summary"
    /\ UNCHANGED <<args_dry_run, plan_ids, todo_plans, produced_files, exit_code>>
    /\ UNCHANGED notMain

(* The console summaries, then return 0.                                   *)
ReturnZero ==
    /\ main_pc = "summary"
    /\ main_pc' = "returned"
    /\ exit_code' = Some(0)
    /\ UNCHANGED <<args_dry_run, plan_ids, todo_plans, disk, produced_files>>
    /\ UNCHANGED notMain

NextMain ==
    \/ SkipJsonWrites
    \/ SaveGlobalJson
    \/ WritePlanJson
    \/ WriteManifest
    \/ ReturnZero

SpecMain == InitMain /\ [][NextMain]_vars

-----------------------------------------------------------------------------
(* table_jira._fetch_count for one filter: up to three primary POSTs, then *)
(* the GET paging of _page_count_get when the answer has no total.  The    *)
(* server's answer to each request is any of the kinds the code tells      *)
(* apart; the sleeps between requests change no value the code reads       *)
(* again except backoff, which only sets the length of the next sleep.     *)

MaxPages == 2       \* largest cfg.max_pages
MaxIssues == 2      \* largest number of issues on one page
PostAttempts == 3   \* for attempt in range(1, 4)

PostResponses ==
    {"exception", "429", "client_error", "server_error", "not_json",
     "total", "no_total"}

GetResponses ==
    {"exception", "429", "error", "not_json", "not_dict", "no_issues",
     "page", "last_page"}

(* Variant of CountsPage: a retried request counts as a page.              *)
CountsEveryRequest(resp) == TRUE

(* pages += 1 is reached only by an answer with a list of issues.          *)
CountsPage(resp) == resp \in {"page", "last_page"}

InitJira ==
    /\ jira_pc = "post"
    /\ safe_jql \in BOOLEAN
    /\ max_pages \in 1..MaxPages
    /\ posts = 0
    /\ pages = 0
    /\ total = 0
    /\ last_response = ""
    /\ count = None
    /\ notJiraIdle

(* sanitize_jql returned None: no request is made.                         *)
RejectJql ==
    /\ jira_pc = "post"
    /\ ~safe_jql
    /\ jira_pc' = "returned"
    /\ count' = None
    /\ UNCHANGED <<safe_jql, max_pages, posts, pages, total, last_response>>
    /\ UNCHANGED notJira

(* One turn of the POST loop.                                              *)
PrimaryPost ==
    /\ jira_pc = "post"
    /\ safe_jql
    /\ posts < PostAttempts
    /\ \E resp \in PostResponses, t \in 0..MaxIssues :
          /\ last_response' = resp
          /\ posts' = posts + 1
          /\ IF resp \in {"exception", "429", "server_error"}
             THEN /\ jira_pc' = "post"
                  /\ count' = count
             ELSE IF resp \in {"client_error", "not_json"}
             THEN /\ jira_pc' = "returned"
                  /\ count' = None
             ELSE IF resp = "total"
             THEN /\ jira_pc' = "returned"
                  /\ count' = Some(t)
             ELSE /\ jira_pc' = "page"
                  /\ count' = count
    /\ UNCHANGED <<safe_jql, max_pages, pages, total>>
    /\ UNCHANGED notJira

(* The POST loop ran out of attempts.                                      *)
PostAttemptsExhausted ==
    /\ jira_pc = "post"
    /\ safe_jql
    /\ posts >= PostAttempts
    /\ jira_pc' = "returned"
    /\ count' = None
    /\ UNCHANGED <<safe_jql, max_pages, posts, pages, total, last_response>>
    /\ UNCHANGED notJira

(* One turn of the while loop of _page_count_get.                          *)
PageGet ==
    /\ jira_pc = "page"
    /\ IF pages >= max_pages
       THEN /\ jira_pc' = "returned"
            /\ count' = None
            /\ UNCHANGED <<pages, total, last_response>>
       ELSE \E resp \in GetResponses, n \in 0..MaxIssues :
              /\ last_response' = resp
              /\ pages' = IF CountsPage(resp) THEN pages + 1 ELSE pages
              /\ total' = IF resp \in {"page", "last_page"} THEN total + n
                          ELSE total
              /\ IF resp \in {"exception", "429"}
                 THEN /\ jira_pc' = "page"
                      /\ count' = count
                 ELSE IF resp \in {"error", "not_json", "no_issues"}
                 THEN /\ jira_pc' = "returned"
                      /\ count' = None
                 ELSE IF resp = "not_dict"
                 THEN /\ jira_pc' = "raised"
                      /\ count' = count
                 ELSE IF resp = "last_page" \/ n = 0
                 THEN /\ jira_pc' = "returned"
                      /\ count' = Some(total + n)
                 ELSE /\ jira_pc' = "page"
                      /\ count' = count
    /\ UNCHANGED <<safe_jql, max_pages, posts>>
    /\ UNCHANGED notJira

NextJira ==
    \/ RejectJql
    \/ PrimaryPost
    \/ PostAttemptsExhausted
    \/ PageGet

SpecJira == InitJira /\ [][NextJira]_vars

(* The loops of _fetch_count keep running until they return.               *)
SpecJiraLive == SpecJira /\ WF_vars(NextJira)

-----------------------------------------------------------------------------
(* orchestrator.main: omni, milestones, charts, jira, output, injection.   *)
(* A stage's own work is its outcome here: the code a runner returns, or   *)
(* whether the stage failed where main does not read a code.               *)

StageOrder == <<"omni", "milestones", "charts", "jira", "output", "injection">>
OmniCodes == {0, 2, 3}          \* what omni.main returns
OutputCodes == {0, 1, 2}        \* what _run_output returns

(* if rc != 0, read as "never".                                            *)
StageNeverStops(code) == FALSE

(* if rc != 0: return rc                                                   *)
StageStops(code) == code # 0

InitOrch ==
    /\ orch_pc = "omni"
    /\ no_charts \in BOOLEAN
    /\ skip_jira \in BOOLEAN
    /\ stages = <<>>
    /\ failed_stages = {}
    /\ rc = None
    /\ rc_out = None
    /\ orch_rc = None
    /\ notOrchIdle

(* 1) rc = _run_omni(); a non-zero code is returned at once.               *)
RunOmni ==
    /\ orch_pc = "omni"
    /\ \E code \in OmniCodes :
          /\ rc' = Some(code)
          /\ failed_stages' = IF code # 0 THEN failed_stages \cup {"omni"}
                              ELSE failed_stages
          /\ IF StageStops(code)
             THEN orch_pc' = "returned" /\ orch_rc' = Some(code)
             ELSE orch_pc' = "milestones" /\ orch_rc' = orch_rc
    /\ stages' = Append(stages, "omni")
    /\ UNCHANGED <<no_charts, skip_jira, rc_out>>
    /\ UNCHANGED notOrch

(* 2) _run_table_milestone returns the path whatever happened.             *)
RunMilestones ==
    /\ orch_pc = "milestones"
    /\ \E ok \in BOOLEAN :
          failed_stages' = IF ok THEN failed_stages
                           ELSE failed_stages \cup {"milestones"}
    /\ stages' = Append(stages, "milestones")
    /\ orch_pc' = "charts"
    /\ UNCHANGED <<no_charts, skip_jira, rc, rc_out, orch_rc>>
    /\ UNCHANGED notOrch

(* 3) one chart per discovered per-plan JSON; the codes are not read.      *)
RunCharts ==
    /\ orch_pc = "charts"
    /\ \E per_plan_jsons \in BOOLEAN, ok \in BOOLEAN :
          IF ~no_charts /\ per_plan_jsons
          THEN /\ stages' = Append(stages, "charts")
               /\ failed_stages' = IF ok THEN failed_stages
                                   ELSE failed_stages \cup {"charts"}
          ELSE UNCHANGED <<stages, failed_stages>>
    /\ orch_pc' = "jira"
    /\ UNCHANGED <<no_charts, skip_jira, rc, rc_out, orch_rc>>
    /\ UNCHANGED notOrch

(* 4) _run_table_jira unless --skip-jira; its result is not read.          *)
RunJira ==
    /\ orch_pc = "jira"
    /\ \E ok \in BOOLEAN :
          IF ~skip_jira
          THEN /\ stages' = Append(stages, "jira")
               /\ failed_stages' = IF ok THEN failed_stages
                                   ELSE failed_stages \cup {"jira"}
          ELSE UNCHANGED <<stages, failed_stages>>
    /\ orch_pc' = "output"
    /\ UNCHANGED <<no_charts, skip_jira, rc, rc_out, orch_rc>>
    /\ UNCHANGED notOrch

(* 5) rc_out = _run_output(...); a non-zero code is returned at once.      *)
RunOutput ==
    /\ orch_pc = "output"
    /\ \E code \in OutputCodes :
          /\ rc_out' = Some(code)
          /\ failed_stages' = IF code # 0 THEN failed_stages \cup {"output"}
                              ELSE failed_stages
          /\ IF StageStops(code)
             THEN orch_pc' = "returned" /\ orch_rc' = Some(code)
             ELSE orch_pc' = "injection" /\ orch_rc' = orch_rc
    /\ stages' = Append(stages, "output")
    /\ UNCHANGED <<no_charts, skip_jira, rc>>
    /\ UNCHANGED notOrch

(* 6) no HTML file: return 0; else append the fragments and return 0       *)
(* whether that worked or not.                                             *)
RunInjection ==
    /\ orch_pc = "injection"
    /\ \E latest \in BOOLEAN, success \in BOOLEAN :
          IF latest
          THEN /\ stages' = Append(stages, "injection")
               /\ failed_stages' = IF success THEN failed_stages
                                   ELSE failed_stages \cup {"injection"}
          ELSE UNCHANGED <<stages, failed_stages>>
    /\ orch_pc' = "returned"
    /\ orch_rc' = Some(0)
    /\ UNCHANGED <<no_charts, skip_jira, rc, rc_out>>
    /\ UNCHANGED notOrch

NextOrch ==
    \/ RunOmni
    \/ RunMilestones
    \/ RunCharts
    \/ RunJira
    \/ RunOutput
    \/ RunInjection

SpecOrch == InitOrch /\ [][NextOrch]_vars

-----------------------------------------------------------------------------
(* The two atomic writers: omni._atomic_write_json (temporary file         *)
(* <path>.tmp, returns True or False) and chart_generator.                 *)
(* _atomic_write_bytes (a fresh mkstemp file, returns or re-raises).  The  *)
(* data reach the temporary file chunk by chunk, and every file system     *)
(* call either works or raises.                                            *)

Chunks == 3         \* most chunks the data are written in

Absent == <<>>
OldContent == <<"old">>
NewContent(n) == <<"new", n>>   \* the first n chunks of the new data

(* The rename, read as "done as soon as the temporary file is open".       *)
StartedWriting(content, n) == content[1] = "new"

(* The with block was left without an exception: all data are written.     *)
FullyWritten(content, n) == content = NewContent(n)

InitAtom ==
    /\ atom_pc = "mkdir"
    /\ writer \in {"json", "bytes"}
    /\ data_size \in 1..Chunks
    /\ previous \in {Absent, OldContent}
    /\ target = previous
    /\ tmp \in IF writer = "json" THEN {Absent, OldContent} ELSE {Absent}
    /\ unlink_failed = FALSE
    /\ write_result = None
    /\ notAtomIdle

(* mkdir(parents=True, exist_ok=True) can only raise when the directory    *)
(* is not there yet; it is there when the target or a temporary file is.   *)
ParentExists == target # Absent \/ tmp # Absent

(* path.parent.mkdir: in _atomic_write_json a failure is caught with tmp   *)
(* not yet bound, so nothing is removed and False is returned; in          *)
(* _atomic_write_bytes it is raised to the caller.                         *)
MakeParent ==
    /\ atom_pc = "mkdir"
    /\ \E ok \in IF ParentExists THEN {TRUE} ELSE BOOLEAN :
          IF ok
          THEN atom_pc' = "open" /\ write_result' = write_result
          ELSE /\ atom_pc' = "done"
               /\ write_result' = IF writer = "json" THEN Some("False")
                             ELSE Some("raised")
    /\ UNCHANGED <<writer, data_size, previous, target, tmp, unlink_failed>>
    /\ UNCHANGED notAtom

(* tmp.open("w") inside the try block, or tempfile.mkstemp before it.      *)
OpenTmp ==
    /\ atom_pc = "open"
    /\ \E ok \in BOOLEAN :
          IF ok
          THEN /\ tmp' = NewContent(0)
               /\ atom_pc' = "write"
               /\ write_result' = write_result
          ELSE /\ tmp' = tmp
               /\ IF writer = "json"
                  THEN atom_pc' = "cleanup" /\ write_result' = write_result
                  ELSE atom_pc' = "done" /\ write_result' = Some("raised")
    /\ UNCHANGED <<writer, data_size, previous, target, unlink_failed>>
    /\ UNCHANGED notAtom

(* json.dump / fh.write, flush and close: one more chunk reaches the       *)
(* temporary file, or the call raises and the file is closed as it is.     *)
WriteChunk ==
    /\ atom_pc = "write"
    /\ ~FullyWritten(tmp, data_size)
    /\ \E ok \in BOOLEAN :
          IF ok
          THEN tmp' = NewContent(tmp[2] + 1) /\ atom_pc' = atom_pc
          ELSE tmp' = tmp /\ atom_pc' = "cleanup"
    /\ UNCHANGED <<writer, data_size, previous, target, unlink_failed, write_result>>
    /\ UNCHANGED notAtom

(* tmp.replace(path): the rename puts the temporary file in the target's   *)
(* place in one step, or raises and changes nothing.                       *)
ReplaceTarget ==
    /\ atom_pc = "write"
    /\ FullyWritten(tmp, data_size)
    /\ \E ok \in BOOLEAN :
          IF ok
          THEN /\ target' = tmp
               /\ tmp' = Absent
               /\ atom_pc' = "done"
               /\ write_result' = IF writer = "json" THEN Some("True")
                             ELSE Some("returned")
          ELSE /\ atom_pc' = "cleanup"
               /\ UNCHANGED <<target, tmp, write_result>>
    /\ UNCHANGED <<writer, data_size, previous, unlink_failed>>
    /\ UNCHANGED notAtom

(* The except block: remove the temporary file, ignore a failure of the    *)
(* removal, then return False or raise again.                              *)
RemoveTmp ==
    /\ atom_pc = "cleanup"
    /\ \E ok \in BOOLEAN :
          IF tmp = Absent
          THEN UNCHANGED <<tmp, unlink_failed>>
          ELSE IF ok
          THEN tmp' = Absent /\ unlink_failed' = unlink_failed
          ELSE tmp' = tmp /\ unlink_failed' = TRUE
    /\ atom_pc' = "done"
    /\ write_result' = IF writer = "json" THEN Some("False") ELSE Some("raised")
    /\ UNCHANGED <<writer, data_size, previous, target>>
    /\ UNCHANGED notAtom

NextAtom ==
    \/ MakeParent
    \/ OpenTmp
    \/ WriteChunk
    \/ ReplaceTarget
    \/ RemoveTmp

SpecAtom == InitAtom /\ [][NextAtom]_vars

-----------------------------------------------------------------------------
(* table_jira.fetch_counts: the credentials check, the cache read from     *)
(* disk, the normalised filter list, one turn of the loop per filter       *)
(* (cache hit, or _fetch_count and _cache_set), and the cache written      *)
(* back.  What _fetch_count returns is any count or None.  The cache key   *)
(* of a JQL is the JQL itself.                                             *)

MaxFilters == 2     \* filters given to fetch_counts
MaxClock == 3       \* latest value of the clock
cache_ttl == 1      \* cfg.cache_ttl

FilterNames == {"", "A", " A"}
Jqls == {"", "q1", "q2"}
Counts == {0, 7}

(* str(name).strip()                                                       *)
Strip(s) == IF s = " A" THEN "A" ELSE s

RECURSIVE FilterLists(_)
FilterLists(n) ==
    IF n = 0 THEN {<<>>}
    ELSE FilterLists(n - 1)
           \cup {Append(l, f) : l \in {x \in FilterLists(n - 1) : Len(x) = n - 1},
                                f \in FilterNames \X Jqls}

(* The cache file of an earlier call: nothing, or the count of q1 stored   *)
(* at time 0.                                                              *)
DiskCaches == {<<>>, "q1" :> [ts |-> 0, count |-> 3]}

(* Stripped pairs with a name and a JQL, the first of each name.           *)
RECURSIVE Normalize(_, _, _)
Normalize(fs, seen, acc) ==
    IF fs = <<>> THEN acc
    ELSE LET name == Strip(fs[1][1])
             jql == fs[1][2]
         IN  IF name = "" \/ jql = "" \/ name \in seen
             THEN Normalize(Tail(fs), seen, acc)
             ELSE Normalize(Tail(fs), seen \cup {name}, Append(acc, <<name, jql>>))

(* time.time() - ts > ttl, read as "an entry never expires".               *)
NeverExpired(now, ts, ttl) == FALSE

(* time.time() - ts > ttl                                                  *)
Expired(now, ts, ttl) == now - ts > ttl

_cache_get(c, key, ttl, now) ==
    IF key \notin DOMAIN c THEN None
    ELSE IF Expired(now, c[key].ts, ttl) THEN None
    ELSE Some(c[key].count)

_cache_set(c, key, value, now) ==
    [k \in DOMAIN c \cup {key} |->
        IF k = key THEN [ts |-> now, count |-> value] ELSE c[k]]

(* results[name] = value                                                   *)
SetResult(res, name, value) ==
    [n \in DOMAIN res \cup {name} |-> IF n = name THEN value ELSE res[n]]

(* {name: None for name, _ in filters}                                     *)
AllNone(fs) == [n \in {fs[i][1] : i \in 1..Len(fs)} |-> None]

InitCounts ==
    /\ counts_pc = "start"
    /\ filters \in FilterLists(MaxFilters)
    /\ credentials \in BOOLEAN
    /\ no_cache \in BOOLEAN
    /\ force \in BOOLEAN
    /\ clock \in 1..2
    /\ disk_cache \in DiskCaches
    /\ cache = <<>>
    /\ norm = <<>>
    /\ counts_by_name = <<>>
    /\ fetched = <<>>
    /\ notCountsIdle

(* Credentials missing: every given name gets None and nothing else is     *)
(* done.                                                                   *)
MissingCredentials ==
    /\ counts_pc = "start"
    /\ ~credentials
    /\ counts_by_name' = AllNone(filters)
    /\ counts_pc' = "done"
    /\ UNCHANGED <<filters, credentials, no_cache, force, clock, disk_cache,
                   cache, norm, fetched>>
    /\ UNCHANGED notCounts

(* The cache is loaded unless no_cache, and the filters are normalised.    *)
LoadAndNormalize ==
    /\ counts_pc = "start"
    /\ credentials
    /\ cache' = IF no_cache THEN <<>> ELSE disk_cache
    /\ norm' = Normalize(filters, {}, <<>>)
    /\ counts_pc' = "loop"
    /\ UNCHANGED <<filters, credentials, no_cache, force, clock, disk_cache,
                   counts_by_name, fetched>>
    /\ UNCHANGED notCounts

(* One turn of the loop over norm; the fetch takes d units of time.        *)
CountOneFilter ==
    /\ counts_pc = "loop"
    /\ norm # <<>>
    /\ LET name == norm[1][1]
           key == norm[1][2]
           cached == _cache_get(cache, key, cache_ttl, clock)
       IN  IF cached # None /\ ~force
           THEN /\ counts_by_name' = SetResult(counts_by_name, name, cached)
                /\ UNCHANGED <<cache, fetched, clock>>
           ELSE \E val \in {None} \cup {Some(c) : c \in Counts},
                   d \in {t \in 0..1 : clock + t <= MaxClock} :
                  /\ clock' = clock + d
                  /\ fetched' = Append(fetched, <<key, val>>)
                  /\ cache' = IF val # None
                              THEN _cache_set(cache, key, val[1], clock + d)
                              ELSE cache
                  /\ counts_by_name' = SetResult(counts_by_name, name, val)
    /\ norm' = Tail(norm)
    /\ UNCHANGED <<counts_pc, filters, credentials, no_cache, force, disk_cache>>
    /\ UNCHANGED notCounts

(* _save_cache: the file is replaced by the cache, or the write fails and  *)
(* is ignored; then the results are returned.                              *)
SaveCache ==
    /\ counts_pc = "loop"
    /\ norm = <<>>
    /\ \E ok \in BOOLEAN : disk_cache' = IF ok THEN cache ELSE disk_cache
    /\ counts_pc' = "done"
    /\ UNCHANGED <<filters, credentials, no_cache, force, clock, cache, norm,
                   counts_by_name, fetched>>
    /\ UNCHANGED notCounts

NextCounts ==
    \/ MissingCredentials
    \/ LoadAndNormalize
    \/ CountOneFilter
    \/ SaveCache

SpecCounts == InitCounts /\ [][NextCounts]_vars

-----------------------------------------------------------------------------
(* compute_executed_series called with a window size that is not positive  *)
(* (--days is any int).                                                    *)

NonPositiveDays == {-1, 0}

InitDays ==
    /\ pc = "series"
    /\ scope = "global"
    /\ dry_run = FALSE
    /\ days \in NonPositiveDays
    /\ tz \in TimeZones
    /\ tests_map \in TestsMaps(Keys, MaxResults)
    /\ executed_series = <<>>
    /\ cumulative_series = <<>>
    /\ rows = <<>>
    /\ grand = NoGrand
    /\ current_last = 0
    /\ missing_from_meta = 0
    /\ payload = None
    /\ meta_store = NoMetas
    /\ futures = NoFutures
    /\ returned = NoFutures
    /\ consumed = {}
    /\ notOmniIdle

NextDays == ComputeSeries

SpecDays == InitDays /\ [][NextDays]_vars

-----------------------------------------------------------------------------
(* Properties.  The definitions below restate the specification's terms    *)
(* independently of the loops above.                                       *)

ExecutedStatusSet == {1, 5}

RECURSIVE SumTo(_, _)
SumTo(s, n) == IF n = 0 THEN 0 ELSE s[n] + SumTo(s, n - 1)

SumSeq(s) == SumTo(s, Len(s))

IsNonDecreasing(s) == \A i \in 1..(Len(s) - 1) : s[i] <= s[i + 1]

HasExecuted(timeline) ==
    \E i \in 1..Len(timeline) : St(timeline[i]) \in ExecutedStatusSet

FirstExecutedPos(timeline) ==
    CHOOSE i \in 1..Len(timeline) :
        /\ St(timeline[i]) \in ExecutedStatusSet
        /\ \A j \in 1..(i - 1) : St(timeline[j]) \notin ExecutedStatusSet

FirstExecutedTs(timeline) == Ts(timeline[FirstExecutedPos(timeline)])

ExecutedPairs == {k \in DOMAIN tests_map : HasExecuted(tests_map[k])}

utc_start == day_start_utc(days, tz)
utc_end == day_end_utc(days, tz)

BeforeWindowPairs ==
    {k \in ExecutedPairs : FirstExecutedTs(tests_map[k]) < utc_start[1]}

AfterWindowPairs ==
    {k \in ExecutedPairs : FirstExecutedTs(tests_map[k]) > utc_end[days]}

InDay(ts, i) == utc_start[i] <= ts /\ ts <= utc_end[i]

Classified == first_executed_day_idx(tests_map, days, tz)

Last(s) == s[Len(s)]

SeriesComputed == pc \in {"rows", "reconcile", "save", "done"}

(* C1: the cumulative series is non-decreasing when compute_executed_series *)
(* returns it and stays so after the reconciliation, in main and for a     *)
(* plan.                                                                   *)
C1_Monotonic ==
    SeriesComputed =>
        /\ Len(cumulative_series) = days
        /\ IsNonDecreasing(cumulative_series)
        /\ payload # None => IsNonDecreasing(payload[1].cumulative)

C1_Witness ==
    /\ pc = "save"
    /\ scope = "plan"
    /\ days >= 2
    /\ missing_from_meta > 0
    /\ cumulative_series[1] < cumulative_series[2]

(* C2: before reconciliation, the daily counts plus the number of pairs    *)
(* first executed before the window equal the last cumulative value.       *)
C2_Conservation ==
    pc = "rows" =>
        SumSeq(executed_series) + Cardinality(BeforeWindowPairs)
            = Last(cumulative_series)

C2_Witness ==
    /\ pc = "rows"
    /\ BeforeWindowPairs # {}
    /\ SumSeq(executed_series) >= 1

ForwardPass(daily, seed) ==
    [i \in 1..Len(daily) |-> seed + SumTo(daily, i)]

(* C3: cumulative[i] is the number of pairs classified before the window   *)
(* or to a day <= i, which is the forward pass seeded with the             *)
(* before-window count; the final clamp changes nothing.                   *)
C3_ForwardPass ==
    pc = "rows" =>
        /\ cumulative_series
             = ForwardPass(executed_series, Cardinality(BeforeWindowPairs))
        /\ \A i \in 1..days :
             cumulative_series[i]
               = Cardinality({k \in ExecutedPairs : Classified[k][1] <= i - 1})
        /\ cumulative_per_day(tests_map, days, tz) = cumulative_series

C3_Witness ==
    /\ pc = "rows"
    /\ days >= 2
    /\ BeforeWindowPairs # {}
    /\ cumulative_series[1] < cumulative_series[2]

FirstExecutedOnly(tm) ==
    [k \in {x \in DOMAIN tm : HasExecuted(tm[x])} |->
        <<tm[k][FirstExecutedPos(tm[k])]>>]

(* C4: only the first executed observation of a timeline counts: the       *)
(* series of the store equals the series of the store cut down to each     *)
(* pair's first executed observation, and a pair without one adds nothing. *)
C4_FirstExecutedDecides ==
    pc = "rows" =>
        /\ executed_series
             = compute_executed_series(FirstExecutedOnly(tests_map), days, tz)[2]
        /\ cumulative_series
             = compute_executed_series(FirstExecutedOnly(tests_map), days, tz)[3]
        /\ Last(cumulative_series) = Cardinality(ExecutedPairs)

C4_Witness ==
    /\ pc = "rows"
    /\ days >= 2
    /\ \E k \in DOMAIN tests_map :
          /\ Len(tests_map[k]) = 2
          /\ St(tests_map[k][1]) = 5
          /\ St(tests_map[k][2]) = 1
          /\ InDay(Ts(tests_map[k][1]), 1)
          /\ InDay(Ts(tests_map[k][2]), 2)
    /\ executed_series = <<1, 0>>

(* C5: a first-executed timestamp is in day i exactly when it lies in      *)
(* [utc_start[i], utc_end[i]], before the window exactly when it is        *)
(* earlier than utc_start[0], and clamped to the last day only when it is  *)
(* later than utc_end[N-1].                                                *)
C5_Classification ==
    pc = "rows" =>
        \A k \in ExecutedPairs :
            LET ts == FirstExecutedTs(tests_map[k])
                c == Classified[k]
            IN  /\ c # None
                /\ c = Some(-1) <=> ts < utc_start[1]
                /\ \A i \in 1..days : InDay(ts, i) => c = Some(i - 1)
                /\ c # Some(-1) =>
                      \/ InDay(ts, c[1] + 1)
                      \/ c = Some(days - 1) /\ ts > utc_end[days]

(* C6: a first-executed timestamp equal to utc_end[i] is counted in day i. *)
C6_BoundaryInclusion ==
    pc = "rows" =>
        \A i \in 1..days :
            LET onEnd == {k \in ExecutedPairs :
                            FirstExecutedTs(tests_map[k]) = utc_end[i]}
            IN  /\ \A k \in onEnd : Classified[k] = Some(i - 1)
                /\ executed_series[i] >= Cardinality(onEnd)

C6_Witness ==
    /\ pc = "rows"
    /\ days >= 2
    /\ \E k \in ExecutedPairs : FirstExecutedTs(tests_map[k]) = utc_end[1]
    /\ executed_series[1] >= 1

Without(tm, k) == [x \in DOMAIN tm \ {k} |-> tm[x]]

(* C7: daily[i] counts the pairs classified to day i, the pairs after the  *)
(* window among those of the last day; a pair before the window adds one   *)
(* to every cumulative value and nothing to any daily value.               *)
C7_DailyCounts ==
    pc = "rows" =>
        /\ \A i \in 1..days :
             executed_series[i]
               = Cardinality({k \in ExecutedPairs : Classified[k] = Some(i - 1)})
        /\ \A k \in AfterWindowPairs : Classified[k] = Some(days - 1)
        /\ \A k \in BeforeWindowPairs :
             LET rest == compute_executed_series(Without(tests_map, k), days, tz)
             IN  /\ rest[2] = executed_series
                 /\ \A i \in 1..days : cumulative_series[i] = rest[3][i] + 1

C7_Witness ==
    /\ pc = "rows"
    /\ days >= 2
    /\ BeforeWindowPairs # {}
    /\ AfterWindowPairs # {}
    /\ executed_series[days] = 1

(* C8: the reconciliation adds deficit = max(0, Executed - last) to every  *)
(* element of the cumulative series, nothing when the deficit is 0, and    *)
(* leaves the daily series alone.                                          *)
C8_ReconcileAddsDeficit ==
    [][(pc = "reconcile" /\ pc' = "save") =>
        LET deficit == Max(0, grand.Executed - Last(cumulative_series))
        IN  /\ missing_from_meta' = deficit
            /\ Len(cumulative_series') = Len(cumulative_series)
            /\ \A i \in 1..Len(cumulative_series) :
                  cumulative_series'[i] = cumulative_series[i] + deficit
            /\ executed_series' = executed_series]_vars

C8_Witness ==
    /\ pc = "save"
    /\ days >= 2
    /\ missing_from_meta > 0
    /\ cumulative_series[1] = missing_from_meta
    /\ cumulative_series[2] = missing_from_meta + 1

(* C9: reconciling a reconciled series again with the same Executed total  *)
(* finds deficit 0 and changes nothing.                                    *)
C9_Idempotent ==
    pc \in {"save", "done"} =>
        /\ MissingFromMeta(cumulative_series, grand.Executed) = 0
        /\ Reconcile(cumulative_series, grand.Executed) = cumulative_series

C9_Witness ==
    /\ pc = "save"
    /\ missing_from_meta > 0
    /\ Last(cumulative_series) = grand.Executed

(* C10: the written source_discrepancy is max(0, Executed - last value     *)
(* before reconciliation), and the last written cumulative value is that   *)
(* last value plus source_discrepancy, hence at least Executed.            *)
C10_SourceDiscrepancy ==
    (pc = "done" /\ payload # None) =>
        LET before == compute_executed_series(tests_map, days, tz)[3]
            out == payload[1]
        IN  /\ current_last = Last(before)
            /\ out.source_discrepancy = Max(0, grand.Executed - Last(before))
            /\ Last(out.cumulative) = Last(before) + out.source_discrepancy
            /\ Last(out.cumulative) >= grand.Executed
            /\ out.grand = grand

C10_Witness ==
    /\ pc = "done"
    /\ payload # None
    /\ payload[1].source_discrepancy > 0
    /\ payload[1].grand.Executed > 0

(* C11: the window has exactly N days in ascending calendar order ending   *)
(* at today's local date, every day's UTC range is non-empty, and          *)
(* consecutive ranges touch: utc_end[i] < utc_start[i+1] with no second    *)
(* between them.                                                           *)
C11_DayWindow ==
    (pc = "rows" /\ days >= 1) =>
        /\ Len(ordered_days(days)) = days
        /\ ordered_days(days)[days] = Today
        /\ \A i \in 1..(days - 1) :
              ordered_days(days)[i + 1] = ordered_days(days)[i] + 1
        /\ \A i \in 1..days : utc_start[i] <= utc_end[i]
        /\ \A i \in 1..(days - 1) :
              /\ utc_end[i] < utc_start[i + 1]
              /\ utc_end[i] + 1 = utc_start[i + 1]

(* C12: a window size below 1 is rejected with a configuration error       *)
(* before any computation: the call neither returns a series nor ends in   *)
(* another error.                                                          *)
C12_RejectsNonPositiveDays ==
    (days < 1 /\ pc # "series") =>
        /\ pc = "ConfigurationError"
        /\ executed_series = <<>>
        /\ cumulative_series = <<>>

(* Terms of the run summaries.                                             *)
CounterKeys ==
    {"passed_count", "blocked_count", "untested_count", "retest_count",
     "failed_count"}

HasCounters(meta) == CounterKeys \subseteq DOMAIN meta

RowsBuilt == pc \in {"reconcile", "save", "done"}

RowRunIds == {rows[i].run_id : i \in 1..Len(rows)}

RowIn(rs, run_id) == rs[CHOOSE i \in 1..Len(rs) : rs[i].run_id = run_id]

ObservedTests(run_id) == {k \in DOMAIN tests_map : k[1] = run_id}

PassedTests(run_id) ==
    {k \in ObservedTests(run_id) : St(Last(tests_map[k])) = 1}

FailedTests(run_id) ==
    {k \in ObservedTests(run_id) : St(Last(tests_map[k])) = 5}

(* The row the fallback tally must produce for a run.                      *)
IsLocalTally(row) ==
    /\ row.planned = Cardinality(ObservedTests(row.run_id))
    /\ row.passed = Cardinality(PassedTests(row.run_id))
    /\ row.failed = Cardinality(FailedTests(row.run_id))
    /\ row.executed = row.passed + row.failed
    /\ row.not_executed = row.planned - row.executed

(* C13: a run whose metadata carries the counters gets                     *)
(* planned = passed+blocked+untested+retest+failed, executed =             *)
(* passed+failed and not_executed = blocked+untested, whatever the         *)
(* timeline store holds for the run.                                       *)
C13_MetadataRow ==
    RowsBuilt =>
        \A i \in 1..Len(rows) :
            LET meta == meta_store[rows[i].run_id]
            IN  HasCounters(meta) =>
                  /\ rows[i].planned
                       = meta.passed_count + meta.blocked_count
                         + meta.untested_count + meta.retest_count
                         + meta.failed_count
                  /\ rows[i].executed = meta.passed_count + meta.failed_count
                  /\ rows[i].not_executed
                       = meta.blocked_count + meta.untested_count
                  /\ rows[i].passed = meta.passed_count
                  /\ rows[i].failed = meta.failed_count

C13_Witness ==
    /\ pc = "reconcile"
    /\ \E i \in 1..Len(rows) :
          /\ HasCounters(meta_store[rows[i].run_id])
          /\ meta_store[rows[i].run_id].retest_count > 0
          /\ Cardinality(ObservedTests(rows[i].run_id)) = 2
          /\ PassedTests(rows[i].run_id) # {}
          /\ rows[i].passed = 0
          /\ rows[i].planned = 3

LastOnly(tm) == [k \in DOMAIN tm |-> <<Last(tm[k])>>]

IsFallbackRun(run_id) == meta_store[run_id] = EmptyMeta

(* C14: on the fallback path planned is the number of distinct tests       *)
(* observed for the run, a test counts as passed or failed by the status   *)
(* of its most recent result alone (the row is the one of the store cut    *)
(* down to each timeline's last result), and not_executed = planned -      *)
(* executed.                                                               *)
C14_FallbackTally ==
    RowsBuilt =>
        \A i \in 1..Len(rows) :
            IsFallbackRun(rows[i].run_id) =>
                /\ IsLocalTally(rows[i])
                /\ rows[i] = RowIn(build_rows(LastOnly(tests_map), meta_store),
                                   rows[i].run_id)

C14_Witness ==
    /\ pc = "reconcile"
    /\ \E i \in 1..Len(rows) :
          /\ IsFallbackRun(rows[i].run_id)
          /\ \E k \in ObservedTests(rows[i].run_id) :
                /\ Len(tests_map[k]) = 2
                /\ St(tests_map[k][1]) = 1
                /\ St(tests_map[k][2]) = 5
          /\ rows[i].planned = 1
          /\ rows[i].passed = 0
          /\ rows[i].failed = 1

LacksCounters(meta) == meta # EmptyMeta /\ DOMAIN meta \cap CounterKeys = {}

(* C15: a run whose fetched metadata is non-empty but has none of the      *)
(* counter fields is summarised by the fallback tally of the timeline      *)
(* store, not by a row of zero counters.                                   *)
C15_FallbackWithoutCounters ==
    RowsBuilt =>
        \A i \in 1..Len(rows) :
            LacksCounters(meta_store[rows[i].run_id]) => IsLocalTally(rows[i])

RECURSIVE SumRowsTo(_, _, _)
SumRowsTo(rs, f, n) == IF n = 0 THEN 0 ELSE rs[n][f] + SumRowsTo(rs, f, n - 1)

SumRows(f) == SumRowsTo(rows, f, Len(rows))

(* C18: each grand total is the sum of its field over the returned rows,   *)
(* whichever path produced each row.                                       *)
C18_GrandTotals ==
    RowsBuilt =>
        /\ grand.Planned = SumRows("planned")
        /\ grand.Executed = SumRows("executed")
        /\ grand.NotExecuted = SumRows("not_executed")
        /\ grand.Passed = SumRows("passed")
        /\ grand.Failed = SumRows("failed")

C18_Witness ==
    /\ pc = "reconcile"
    /\ \E i, j \in 1..Len(rows) :
          /\ HasCounters(meta_store[rows[i].run_id])
          /\ rows[i].planned > rows[i].executed + rows[i].not_executed
          /\ IsFallbackRun(rows[j].run_id)
          /\ rows[j].planned = 2
          /\ rows[j].failed = 1
          /\ grand.Planned = rows[i].planned + 2
          /\ grand.Failed = rows[i].failed + 1

(* C19: every row has executed = passed + failed; a row of the fallback    *)
(* tally also has not_executed = planned - executed and                     *)
(* 0 <= executed <= planned.                                               *)
C19_RowArithmetic ==
    RowsBuilt =>
        \A i \in 1..Len(rows) :
            /\ rows[i].executed = rows[i].passed + rows[i].failed
            /\ IsFallbackRun(rows[i].run_id) =>
                  /\ rows[i].not_executed = rows[i].planned - rows[i].executed
                  /\ 0 <= rows[i].executed
                  /\ rows[i].executed <= rows[i].planned
                  /\ rows[i].not_executed >= 0

C19_Witness ==
    /\ pc = "reconcile"
    /\ \E i, j \in 1..Len(rows) :
          /\ IsFallbackRun(rows[i].run_id)
          /\ rows[i].planned = 2
          /\ rows[i].executed = 1
          /\ rows[i].not_executed = 1
          /\ HasCounters(meta_store[rows[j].run_id])
          /\ rows[j].executed = 3

FetchFailed(run_id) == returned[run_id] = EmptyMeta

(* C16: when the metadata fetch of a run fails, the run's row is the       *)
(* fallback tally, every other run's row is what it would be had that      *)
(* fetch returned any run object, and the build still returns one row per  *)
(* run with the grand totals.                                              *)
C16_MetaFailureIsolated ==
    RowsBuilt =>
        /\ RowRunIds = DOMAIN futures
        /\ Len(rows) = Cardinality(DOMAIN futures)
        /\ grand = [Planned |-> SumRows("planned"),
                    Executed |-> SumRows("executed"),
                    NotExecuted |-> SumRows("not_executed"),
                    Passed |-> SumRows("passed"),
                    Failed |-> SumRows("failed")]
        /\ \A r \in DOMAIN futures :
              FetchFailed(r) =>
                 /\ IsLocalTally(RowIn(rows, r))
                 /\ \A meta \in Metas, o \in DOMAIN futures \ {r} :
                       RowIn(build_rows(tests_map,
                                        [meta_store EXCEPT ![r] = meta]), o)
                         = RowIn(rows, o)

C16_Witness ==
    /\ pc = "reconcile"
    /\ \E r, o \in DOMAIN futures :
          /\ FetchFailed(r)
          /\ ObservedTests(r) # {}
          /\ RowIn(rows, r).planned = 1
          /\ HasCounters(returned[o])
          /\ RowIn(rows, o).planned = 5
          /\ grand.Planned >= 6

(* C17: the rows hold exactly one row for every run id of the timeline     *)
(* store or of RUN_IDS, in strictly ascending run_id order, in whatever    *)
(* order the metadata fetches completed.                                   *)
C17_RowsPerRun ==
    RowsBuilt =>
        /\ RowRunIds = {k[1] : k \in DOMAIN tests_map} \cup RUN_IDS
        /\ Len(rows) = Cardinality(RowRunIds)
        /\ \A i \in 1..(Len(rows) - 1) : rows[i].run_id < rows[i + 1].run_id

C17_Witness ==
    /\ pc = "reconcile"
    /\ scope = "plan"
    /\ {k[1] : k \in DOMAIN tests_map} = {3}
    /\ Len(rows) = 3
    /\ rows[1].run_id = 1
    /\ rows[3].run_id = 3
    /\ FetchFailed(3)
    /\ HasCounters(returned[1])

AggregationStep ==
    \/ pc = "series" /\ pc' \in {"rows", "IndexError"}
    \/ pc = "collect_metas" /\ pc' = "reconcile"
    \/ pc = "reconcile" /\ pc' = "save"

PendingOrRunning ==
    {r \in DOMAIN futures : futures[r] \in {"pending", "running"}}

(* C20: compute_executed_series, the rows loop with its fallback tally and *)
(* the reconciliation take a step only when the phase's fetch tasks have   *)
(* been submitted and none of them is pending or running.                  *)
C20_FanInBarrier ==
    [][AggregationStep => (futures # NoFutures /\ PendingOrRunning = {})]_vars

C20_Witness ==
    /\ pc = "save"
    /\ Cardinality(DOMAIN futures) = 3
    /\ PendingOrRunning = {}
    /\ \E r \in DOMAIN futures : FetchFailed(r)
    /\ grand.Executed > 0
    /\ Last(cumulative_series) >= grand.Executed

(* A pass of either as_completed loop: a completed future's value goes     *)
(* into tests_map or meta_store.                                           *)
MergeStep == consumed' # consumed /\ consumed' # {}

(* C21: a task's result is merged into tests_map or meta_store by the      *)
(* orchestrating thread only after the concurrent phase, never while       *)
(* another task of the phase is still pending or running.                  *)
C21_MergeAfterPhase ==
    [][MergeStep => PendingOrRunning = {}]_vars

(* The observations of a task's result list that the merge accepts, in     *)
(* arrival order.                                                          *)
Accepted(results) ==
    LET idx == {i \in 1..Len(results) : results[i].created_on > 0}
        nth(n) == CHOOSE i \in idx : Cardinality({j \in idx : j < i}) = n - 1
    IN  [n \in 1..Cardinality(idx) |->
            <<results[nth(n)].created_on, results[nth(n)].status_id>>]

IsSortedArrangement(timeline, obs) ==
    /\ Len(timeline) = Len(obs)
    /\ {timeline[i] : i \in 1..Len(timeline)} = {obs[i] : i \in 1..Len(obs)}
    /\ \A i \in 1..(Len(timeline) - 1) : Ts(timeline[i]) <= Ts(timeline[i + 1])

ResultsFetched == pc \in {"series", "rows"} /\ futures # NoFutures

(* C22: a run whose results task failed (its result list is empty) adds    *)
(* nothing to the store, every other run's accepted observations are in    *)
(* the store, and the pipeline goes on to the series and the rows; only a  *)
(* plan none of whose runs has an observation is skipped.                  *)
C22_ResultsFailureIsolated ==
    /\ ResultsFetched =>
          \A r \in DOMAIN futures :
              IF Accepted(returned[r]) = <<>>
              THEN ObservedTests(r) = {}
              ELSE /\ ObservedTests(r) = {<<r, 1>>}
                   /\ IsSortedArrangement(tests_map[<<r, 1>>],
                                          Accepted(returned[r]))
    /\ pc = "skipped" =>
          /\ scope = "plan"
          /\ \A r \in DOMAIN futures : Accepted(returned[r]) = <<>>
    /\ pc = "rows" => Len(cumulative_series) = days

C22_Witness ==
    /\ pc = "rows"
    /\ futures # NoFutures
    /\ \E r, o \in DOMAIN futures :
          /\ returned[r] = <<>>
          /\ Len(returned[o]) = 2
          /\ Len(tests_map[<<o, 1>>]) = 2
    /\ Last(cumulative_series) = 1

(* The stable sort of a list of observations by timestamp, stated by its   *)
(* defining property.                                                      *)
StableOrder(obs) ==
    CHOOSE f \in [1..Len(obs) -> 1..Len(obs)] :
        /\ \A i, j \in 1..Len(obs) : i # j => f[i] # f[j]
        /\ \A i, j \in 1..Len(obs) :
              i < j => \/ Ts(obs[f[i]]) < Ts(obs[f[j]])
                       \/ Ts(obs[f[i]]) = Ts(obs[f[j]]) /\ f[i] < f[j]

StableSorted(obs) == [i \in 1..Len(obs) |-> obs[StableOrder(obs)[i]]]

(* The store a set of per-run result lists determines.                     *)
StoreOf(results_by_run) ==
    [k \in {<<r, 1>> : r \in {x \in DOMAIN results_by_run :
                                Accepted(results_by_run[x]) # <<>>}} |->
        StableSorted(Accepted(results_by_run[k[1]]))]

(* C23: the sorted store, and the series computed from it, are determined  *)
(* by the per-run result lists alone, whatever order the tasks completed   *)
(* in; every timeline has non-decreasing timestamps and results of the     *)
(* same second keep their arrival order.                                   *)
C23_CompletionOrderIrrelevant ==
    ResultsFetched =>
        /\ DOMAIN tests_map = DOMAIN StoreOf(returned)
        /\ \A k \in DOMAIN tests_map : tests_map[k] = StoreOf(returned)[k]
        /\ \A k \in DOMAIN tests_map :
              \A i \in 1..(Len(tests_map[k]) - 1) :
                  Ts(tests_map[k][i]) <= Ts(tests_map[k][i + 1])
        /\ pc = "rows" =>
              /\ executed_series
                   = compute_executed_series(StoreOf(returned), days, tz)[2]
              /\ cumulative_series
                   = compute_executed_series(StoreOf(returned), days, tz)[3]

C23_Witness ==
    /\ pc = "rows"
    /\ futures # NoFutures
    /\ \E r, o \in DOMAIN futures :
          /\ returned[r] = <<RawResult(Midnight, 1), RawResult(Midnight, 3)>>
          /\ tests_map[<<r, 1>>] = <<<<Midnight, 1>>, <<Midnight, 3>>>>
          /\ returned[o] = <<RawResult(Midnight, 3), RawResult(Midnight - 1, 1)>>
          /\ tests_map[<<o, 1>>] = <<<<Midnight - 1, 1>>, <<Midnight, 3>>>>
    /\ Last(cumulative_series) = 2


(* Helpers for the table of runs.                                          *)
TableBuilt == table # None
Normalized == [i \in 1..Len(run_rows) |-> _normalize_row(run_rows[i])]
CountIn(rs, r) == Cardinality({i \in 1..Len(rs) : rs[i] = r})
RECURSIVE ShownCount(_, _, _)
ShownCount(t, r, n) ==
    IF n = 0 THEN 0 ELSE ShownCount(t, r, n - 1) + CountIn(t[n].rows, r)
KeyRank(k) ==
    IF k = Unplanned THEN Len(SortedNames) + 1
    ELSE CHOOSE i \in 1..Len(SortedNames) : SortedNames[i] = k
RowsConserved(t) ==
    \A i \in 1..Len(run_rows) :
        ShownCount(t, Normalized[i], Len(t)) = CountIn(Normalized, Normalized[i])
GroupedByPlanKey(t) ==
    \A g \in 1..Len(t) : \A j \in 1..Len(t[g].rows) :
        \/ t[g].rows[j].plan_key = t[g].plan_key
        \/ /\ t[g].rows[j].plan_key = Unplanned
           /\ \A h \in 1..Len(t) : \A k \in 1..Len(t[h].rows) :
                  t[h].rows[k].plan_key = Unplanned => h = g
SentinelForUnkeyed ==
    \A i \in 1..Len(run_rows) :
        (run_rows[i].plan = "" /\ run_rows[i].plan_id = "")
            => Normalized[i].plan_key = Unplanned
SortedUnplannedLast(t) ==
    \A g, h \in 1..Len(t) : g < h => KeyRank(t[g].plan_key) < KeyRank(t[h].plan_key)
TotalsAreSums(t) ==
    \A g \in 1..Len(t) : \A f \in {"planned", "executed", "not_executed", "passed", "failed"} :
        t[g].total[f] = SumRowsField(t[g].rows, f, Len(t[g].rows))

(* C24: build_testruns_table shows every input row exactly once, in the    *)
(* group of its plan_key (rows without a plan field are "Unplanned", and   *)
(* the remap moves the whole Unplanned group without losing or doubling a  *)
(* row); the groups come in sorted key order with "Unplanned" last, and    *)
(* each TOTAL row is the field-wise sum of its group's rows.               *)
C24_GroupsPartitionRows ==
    TableBuilt =>
        /\ RowsConserved(table[1])
        /\ GroupedByPlanKey(table[1])
        /\ SentinelForUnkeyed
        /\ SortedUnplannedLast(table[1])
        /\ TotalsAreSums(table[1])


(* Helpers for the writes of main.                                         *)
PlanOrManifestWritten(d) ==
    d.manifest = "new" \/ \E p \in DOMAIN d.plans : d.plans[p] = "new"
AnyWritten(d) == d.global = "new" \/ PlanOrManifestWritten(d)
GlobalSaveFails ==
    main_pc = "write" /\ ~args_dry_run /\ main_pc' # "write" /\ disk'.global # "new"

(* C25: with --dry-run main writes no file; without it, a per-plan JSON or *)
(* the manifest is written only after the global results JSON was written *)
(* successfully, and a failed global write makes main return 3 with no     *)
(* per-plan JSON and no manifest written.                                  *)
C25_WritesGuardedByGlobal ==
    /\ [](main_pc \in {"write", "plans", "summary", "returned"} =>
            /\ args_dry_run => ~AnyWritten(disk)
            /\ PlanOrManifestWritten(disk) => disk.global = "new"
            /\ exit_code = Some(3) => ~AnyWritten(disk))
    /\ [][/\ args_dry_run => disk' = disk
          /\ GlobalSaveFails => (exit_code' = Some(3) /\ main_pc' = "returned")
          /\ PlanOrManifestWritten(disk') /\ ~PlanOrManifestWritten(disk)
                => produced_files.global # <<>>]_vars

(* The global write failed: main returned 3 and a per-plan file of an      *)
(* earlier run is still the old one.                                       *)
C25_Witness ==
    /\ exit_code = Some(3)
    /\ plan_ids = CHART_PLAN_IDS
    /\ disk.plans[7] = "old"
    /\ disk.manifest = "old"

(* C26: every row built for a plan refers to a run of that plan, as        *)
(* returned by fetch_plan_runs; a run that is only in the global RUN_IDS   *)
(* has no row in the plan's results.                                       *)
C26_PlanRowsOfPlanRuns ==
    (scope = "plan" /\ RowsBuilt) => RowRunIds \subseteq PlanRuns

(* C27: fetching the count of one filter always comes to an end:           *)
(* at most three primary POSTs are sent, and the GET paging stops however  *)
(* the server answers, repeated 429 answers and request exceptions         *)
(* included.                                                               *)
C27_FetchCountTerminates ==
    /\ [](posts <= PostAttempts)
    /\ <>(jira_pc \in {"returned", "raised"})

(* Helpers for the stages of the orchestrator.                             *)
StageRank(s) == CHOOSE i \in 1..Len(StageOrder) : StageOrder[i] = s
InStageOrder(ss) ==
    \A i, j \in 1..Len(ss) : i < j => StageRank(ss[i]) < StageRank(ss[j])
Ran(s) == \E i \in 1..Len(stages) : stages[i] = s
Returned == orch_pc = "returned"

(* C28: the stages run in the order omni, milestones, charts, jira,        *)
(* output, injection.  A non-zero code of omni is returned with no later   *)
(* stage run; injection never runs after a non-zero code of output; a      *)
(* failed milestone, chart or jira stage stops nothing; and when output    *)
(* succeeded main returns 0, with or without a successful injection.       *)
C28_StageOrder ==
    /\ InStageOrder(stages)
    /\ (rc # None /\ rc # Some(0)) => (stages = <<"omni">> /\ orch_rc = rc)
    /\ (rc_out # None /\ rc_out # Some(0)) => (~Ran("injection") /\ orch_rc = rc_out)
    /\ (Returned /\ rc = Some(0)) => (Ran("milestones") /\ Ran("output"))
    /\ (Returned /\ rc_out = Some(0)) => orch_rc = Some(0)

(* Milestones, charts and jira all failed, output succeeded, the injection *)
(* failed, and main returned 0.                                            *)
C28_Witness ==
    /\ Returned
    /\ {"milestones", "charts", "jira", "injection"} \subseteq failed_stages
    /\ rc_out = Some(0)
    /\ orch_rc = Some(0)

(* Helpers for the atomic writers.                                         *)
WriterDone == atom_pc = "done"
WriteFailed == write_result \in {Some("False"), Some("raised")}
WriteSucceeded == write_result \in {Some("True"), Some("returned")}
TargetWhole == target \in {previous, NewContent(data_size)}
Reported ==
    /\ WriterDone => (WriteFailed \/ WriteSucceeded)
    /\ WriteSucceeded => (target = NewContent(data_size) /\ tmp = Absent)
    /\ WriteFailed => target = previous
    /\ (writer = "json") => write_result \in {None, Some("True"), Some("False")}
    /\ (writer = "bytes") => write_result \in {None, Some("returned"), Some("raised")}

(* C29, as stated: at every moment the target holds its previous content   *)
(* (or does not exist) or the complete new content, and after a failed     *)
(* write the temporary file is gone and the failure was reported.          *)
C29_AtomicAndTmpRemoved ==
    /\ TargetWhole
    /\ Reported
    /\ (WriterDone /\ WriteFailed) => tmp = Absent

(* C29, amended: the target is never partial and a failure is reported;    *)
(* after a failed write the temporary file is gone unless its removal      *)
(* raised as well, which both writers ignore.                              *)
C29_AtomicWrite ==
    /\ TargetWhole
    /\ Reported
    /\ (WriterDone /\ WriteFailed) => (tmp = Absent \/ unlink_failed)
    /\ unlink_failed => (WriterDone /\ WriteFailed)

(* A JSON write that failed after the first chunk: False, the target still *)
(* the old file, the temporary file removed.                               *)
C29_Witness ==
    /\ WriterDone
    /\ writer = "json"
    /\ write_result = Some("False")
    /\ previous = OldContent
    /\ target = OldContent
    /\ tmp = Absent
    /\ ~unlink_failed
    /\ data_size = Chunks

(* Helpers for fetch_counts.                                               *)
CountsDone == counts_pc = "done"
NamedFilters == {Strip(filters[i][1]) : i \in 1..Len(filters)} \ {""}
QueriedFilters ==
    {Strip(filters[i][1]) :
        i \in {j \in 1..Len(filters) : Strip(filters[j][1]) # "" /\ filters[j][2] # ""}}
GivenNames == {filters[i][1] : i \in 1..Len(filters)}
NewFetch == Len(fetched') = Len(fetched) + 1
LastFetch == fetched'[Len(fetched')]
LoopTurn == counts_pc = "loop" /\ norm # <<>> /\ norm' # norm
OnlyCountsStored ==
    (counts_pc = "loop" /\ cache' # cache) =>
        /\ NewFetch
        /\ LastFetch[2] # None
        /\ DOMAIN cache' = DOMAIN cache \cup {LastFetch[1]}
        /\ cache'[LastFetch[1]] = [ts |-> clock', count |-> LastFetch[2][1]]
        /\ \A k \in DOMAIN cache \ {LastFetch[1]} : cache'[k] = cache[k]
NoneLeavesCache == (NewFetch /\ LastFetch[2] = None) => cache' = cache
HitOnlyWhenFresh ==
    (LoopTurn /\ ~NewFetch) =>
        /\ ~force
        /\ norm[1][2] \in DOMAIN cache
        /\ clock - cache[norm[1][2]].ts <= cache_ttl
        /\ counts_by_name'[norm[1][1]] = Some(cache[norm[1][2]].count)
FetchedResultKept ==
    (LoopTurn /\ NewFetch) => counts_by_name'[norm[1][1]] = LastFetch[2]

====
